---- MODULE Spec2Model ----
(***************************************************************************)
(* Model of the OIDC login / session / guard orchestration of the chat     *)
(* backend (src/lib/session.js, which holds both the session module and    *)
(* the auth module, src/server.js and src/lib/config.js).                  *)
(*                                                                         *)
(* A request is a little process: it loads its session from the store,     *)
(* runs its handler up to the next real await (provider discovery, token   *)
(* exchange, store destroy), and saves the session when the response ends. *)
(* Requests interleave at those awaits.                                    *)
(***************************************************************************)
EXTENDS Integers, Sequences, FiniteSets, TLC

(***************************************************************************)
(* Bounds of the model.                                                    *)
(***************************************************************************)
MaxReqs == 2
MaxSids == 3
MaxLogins == 2
MaxTicks == 1
MaxDiscover == 2

Reqs == 1..MaxReqs
Sids == 1..MaxSids

(***************************************************************************)
(* JavaScript values.                                                      *)
(***************************************************************************)
Null == [null |-> TRUE]
Undefined == "undefined"
Truthy(v) == v \notin {Undefined, ""}
Or(a, b) == IF Truthy(a) THEN a ELSE b

\* handleCallback: const TRANSACTION_TTL = 5 * 60 * 1000
TRANSACTION_TTL == 5 * 60 * 1000

(***************************************************************************)
(* Strings that the code inspects character by character are tuples of     *)
(* one-character strings.  "B" stands for the text of the configured base  *)
(* origin (scheme://host:port) and "E" for the text of a foreign origin.   *)
(***************************************************************************)
Str(s) == [t |-> "string", v |-> s]
UndefinedVal == [t |-> "undefined"]

Slash == <<"/">>
ChatHtml == <<"/", "c">>

RECURSIVE TrimLeft(_)
TrimLeft(s) == IF s # <<>> /\ Head(s) = " " THEN TrimLeft(Tail(s)) ELSE s

RECURSIVE TrimRight(_)
TrimRight(s) ==
    IF s # <<>> /\ s[Len(s)] = " " THEN TrimRight(SubSeq(s, 1, Len(s) - 1)) ELSE s

\* String.prototype.trim
Trim(s) == TrimRight(TrimLeft(s))

\* String.prototype.startsWith
StartsWith(s, p) == Len(s) >= Len(p) /\ SubSeq(s, 1, Len(p)) = p

\* String.prototype.includes
Includes(s, p) == \E i \in 1..(Len(s) - Len(p) + 1) : SubSeq(s, i, i + Len(p) - 1) = p

\* trimmed.replace(/\/+/g, '/')
RECURSIVE CollapseSlashes(_)
CollapseSlashes(s) ==
    IF s = <<>> THEN <<>>
    ELSE IF Head(s) = "/" /\ Len(s) >= 2 /\ s[2] = "/" THEN CollapseSlashes(Tail(s))
    ELSE <<Head(s)>> \o CollapseSlashes(Tail(s))

\* index of the first character of s that is in cs, or Len(s) + 1
RECURSIVE FirstOf(_, _, _)
FirstOf(s, cs, i) ==
    IF i > Len(s) THEN Len(s) + 1
    ELSE IF s[i] \in cs THEN i ELSE FirstOf(s, cs, i + 1)

\* The path segments of a special-scheme URL: split at "/" and "\", drop "."
\* segments, let ".." remove the segment before it; a trailing "." or ".."
\* leaves an empty last segment.
RECURSIVE PathSegments(_, _)
PathSegments(s, acc) ==
    LET j == FirstOf(s, {"/", "\\"}, 1)
        seg == SubSeq(s, 1, j - 1)
        final == j > Len(s)
        rest == IF final THEN <<>> ELSE SubSeq(s, j + 1, Len(s))
        acc2 == IF seg = <<".">> THEN (IF final THEN Append(acc, <<>>) ELSE acc)
                ELSE IF seg = <<".", ".">>
                     THEN LET popped == IF acc = <<>> THEN acc
                                        ELSE SubSeq(acc, 1, Len(acc) - 1)
                          IN  IF final THEN Append(popped, <<>>) ELSE popped
                ELSE Append(acc, seg)
    IN  IF final THEN acc2 ELSE PathSegments(rest, acc2)

RECURSIVE JoinPath(_)
JoinPath(segs) ==
    IF segs = <<>> THEN <<>> ELSE <<"/">> \o Head(segs) \o JoinPath(Tail(segs))

\* percent-encoding of the characters a URL path, query or fragment may not hold
RECURSIVE PercentEncode(_)
PercentEncode(s) ==
    IF s = <<>> THEN <<>>
    ELSE (IF Head(s) = " " THEN <<"%", "2", "0">> ELSE <<Head(s)>>)
         \o PercentEncode(Tail(s))

\* new URL(s): [ok, origin, pathname, search, hash].  A string with no scheme
\* throws; an absolute URL is an origin followed by nothing, or by a path,
\* query or fragment.
ParseURL(s) ==
    IF s = <<>> \/ Head(s) \notin {"B", "E"}
    THEN [ok |-> FALSE]
    ELSE LET rest == Tail(s)
         IN  IF rest # <<>> /\ Head(rest) \notin {"/", "\\", "?", "#"}
             THEN [ok |-> FALSE]
             ELSE LET h == FirstOf(rest, {"#"}, 1)
                      beforeHash == SubSeq(rest, 1, h - 1)
                      frag == SubSeq(rest, h + 1, Len(rest))
                      q == FirstOf(beforeHash, {"?"}, 1)
                      rawPath == SubSeq(beforeHash, 1, q - 1)
                      query == SubSeq(beforeHash, q + 1, Len(beforeHash))
                      segs == IF rawPath = <<>> THEN <<>>
                              ELSE PathSegments(Tail(rawPath), <<>>)
                  IN  [ok |-> TRUE,
                       origin |-> Head(s),
                       pathname |-> IF segs = <<>> THEN <<"/">>
                                    ELSE PercentEncode(JoinPath(segs)),
                       search |-> IF query = <<>> THEN <<>>
                                  ELSE <<"?">> \o PercentEncode(query),
                       hash |-> IF frag = <<>> THEN <<>>
                                ELSE <<"#">> \o PercentEncode(frag)]

\* a validator that accepts the absolute URLs of every origin
validateReturnTo_AnyOrigin(returnTo, baseUrl) ==
    IF returnTo.t # "string" \/ returnTo.v = <<>>
    THEN Slash
    ELSE LET trimmed == Trim(returnTo.v)
             normalized == CollapseSlashes(trimmed)
             url == ParseURL(trimmed)
         IN  IF /\ StartsWith(trimmed, <<"/">>)
                /\ ~StartsWith(trimmed, <<"/", "/">>)
                /\ ~Includes(normalized, <<".", ".">>)
                /\ ~Includes(normalized, <<"\\">>)
             THEN normalized
             ELSE IF url.ok
                  THEN url.pathname \o url.search \o url.hash
                  ELSE Slash

\* validateReturnTo(returnTo, baseUrl); baseUrl is the origin symbol
validateReturnTo(returnTo, baseUrl) ==
    IF returnTo.t # "string" \/ returnTo.v = <<>>
    THEN Slash
    ELSE LET trimmed == Trim(returnTo.v)
             normalized == CollapseSlashes(trimmed)
             url == ParseURL(trimmed)
         IN  IF /\ StartsWith(trimmed, <<"/">>)
                /\ ~StartsWith(trimmed, <<"/", "/">>)
                /\ ~Includes(normalized, <<".", ".">>)
                /\ ~Includes(normalized, <<"\\">>)
             THEN normalized
             ELSE IF url.ok /\ url.origin = baseUrl
                  THEN url.pathname \o url.search \o url.hash
                  ELSE Slash


(***************************************************************************)
(* Configuration snapshots (loadConfig): immutable after startup.  An      *)
(* unset variable is the empty string.                                     *)
(***************************************************************************)
Configs ==
    [tenantId : {"", "tid"}, clientId : {"", "cid"}, clientSecret : {"", "sec"},
     allowedGroupId : {"", "g1"}, baseUrl : {"B"},
     isProduction : {FALSE}, redisUrl : {""}]

\* createSessionMiddleware: what startup leaves in redisClient and redisStore.
\* With no REDIS_URL nothing is created.  Otherwise createClient may throw
\* (no client), connect may reject (a client, no store) or resolve (both);
\* a failure in production aborts startup.
StartupOutcomes == {"connected", "connectFailed", "createFailed"}

createSessionMiddleware(cfg, outcome) ==
    IF cfg.redisUrl = ""
    THEN [started |-> TRUE, redisClient |-> 0, redisStore |-> 0]
    ELSE IF outcome = "connected"
    THEN [started |-> TRUE, redisClient |-> 1, redisStore |-> 1]
    ELSE [started |-> ~cfg.isProduction,
          redisClient |-> IF outcome = "connectFailed" THEN 1 ELSE 0,
          redisStore |-> 0]

(***************************************************************************)
(* Sessions.  A session holds an optional user and an optional             *)
(* oidcTransaction; the store maps a session identifier to the saved       *)
(* session, or to Null.                                                    *)
(***************************************************************************)
EmptySession == [user |-> Null, oidcTransaction |-> Null]

\* What a token endpoint can answer: ID tokens of two people, each with the
\* groups claim present or not: "u1" is in group g1 and, when the token is too
\* big, gets the overage indicator; "u2" is in group g2 or gets no groups claim.
GroupsList(g) == [t |-> "array", v |-> g]
NoClaimNames == [t |-> "undefined"]
Overage == [t |-> "object", groups |-> "src1"]

Person1 ==
    [sub |-> "u1", email |-> "e1", preferred_username |-> Undefined,
     upn |-> Undefined, name |-> "n1"]
Person2 ==
    [sub |-> "u2", email |-> Undefined, preferred_username |-> "",
     upn |-> "p2", name |-> "n2"]

TokenSets ==
    { [id_token |-> "idt1",
       claims |-> Person1 @@ [groups |-> GroupsList(<<"g1">>), claim_names |-> NoClaimNames]],
      [id_token |-> "idt1",
       claims |-> Person1 @@ [groups |-> UndefinedVal, claim_names |-> Overage]],
      [id_token |-> "idt2",
       claims |-> Person2 @@ [groups |-> GroupsList(<<"g2">>), claim_names |-> NoClaimNames]],
      [id_token |-> "idt2",
       claims |-> Person2 @@ [groups |-> UndefinedVal, claim_names |-> NoClaimNames]] }

\* the returnTo query values a login request may carry
ReturnToInputs == {UndefinedVal, Str(ChatHtml), Str(<<"B", "/", "/", "e">>)}

VARIABLES
    config,         \* the configuration snapshot
    redisClient,    \* session.js redisClient: 0 (null) or 1, the client created
    redisStore,     \* session.js redisStore: 0 (null, sessions in memory) or 1
    oidcClient,     \* the cached provider client: 0 (null) or the instance's number
    discoverCalls,  \* how many times Issuer.discover was called
    clientsCreated, \* how many client instances were constructed
    store,          \* the session store: sid -> session or Null
    issued,         \* the sids ever saved, i.e. ever handed out in a cookie
    nextRand,       \* the next fresh random (state, nonce, code verifier)
    now,            \* Date.now()
    ticks,          \* how many times the clock has advanced
    req,            \* the requests in flight
    response,       \* the response sent by the latest step, if it sent one
    aborted,        \* history, where kept: the sessions whose login attempt a
                    \* callback aborted
    call            \* a call of a pure function: its arguments and its result

vars == <<config, redisClient, redisStore, oidcClient, discoverCalls, clientsCreated, store, issued,
          nextRand, now, ticks, req, response, aborted, call>>

Idle == [pc |-> "idle"]
NoResponse == [kind |-> "none"]
NoCall == [fn |-> "none"]

\* the failures that abort a login attempt
AbortErrors == {"NoTransaction", "TransactionExpired", "StateMismatch", "NonceMismatch"}

\* a server that asks for the tenant only
OidcConfigured_TenantOnly == config.tenantId # ""

\* server.js: the /auth routes and the guards on /chat.html exist only then
OidcConfigured == config.tenantId # "" /\ config.clientId # ""

InFlight == {r \in Reqs : req[r].pc # "idle"}

\* the slot a new request takes
FreeSlot(r) == req[r].pc = "idle" /\ \A x \in Reqs : x < r => req[x].pc # "idle"

\* express-session generateId: an identifier never handed out and not in use
FreeSids == Sids \ (issued \cup {req[x].sid : x \in InFlight})
GenerateId == CHOOSE s \in FreeSids : \A x \in FreeSids : s <= x

\* the cookies a client can present: none (0), or an identifier once issued
Cookies == {0} \cup issued

\* express-session on request: the stored session of the cookie, else a new one
LoadSession(cookie) ==
    IF cookie # 0 /\ store[cookie] # Null
    THEN [sid |-> cookie, sess |-> store[cookie]]
    ELSE [sid |-> GenerateId, sess |-> EmptySession]

CanLoad(cookie) == (cookie # 0 /\ store[cookie] # Null) \/ FreeSids # {}

\* express-session on response end (resave: false, saveUninitialized: false):
\* the session is written when it still exists on the request and either its
\* content or its identifier differs from what was loaded
SaveSession(st, rq, sid, sess) ==
    IF sess # Null /\ (sess # rq.orig \/ sid # rq.origSid)
    THEN [st EXCEPT ![sid] = sess]
    ELSE st

Saved(rq, sid, sess) == sess # Null /\ (sess # rq.orig \/ sid # rq.origSid)

\* the process has started with one of these configurations; kept says whether
\* the history of aborted login attempts is recorded
Start(configs, kept) ==
    /\ config \in configs
    /\ \E outcome \in StartupOutcomes :
          LET m == createSessionMiddleware(config, outcome)
          IN  /\ m.started
              /\ redisClient = m.redisClient
              /\ redisStore = m.redisStore
    /\ oidcClient = 0
    /\ discoverCalls = 0
    /\ clientsCreated = 0
    /\ store = [s \in Sids |-> Null]
    /\ issued = {}
    /\ nextRand = 1
    /\ now = 0
    /\ ticks = 0
    /\ req = [r \in Reqs |-> Idle]
    /\ response = NoResponse
    /\ aborted = [kept |-> kept, sids |-> {}]
    /\ call = NoCall

Init == Start(Configs, FALSE)

(***************************************************************************)
(* getOidcClient up to its await: the cached client, a throw when the      *)
(* provider is not configured, or a discovery call.                        *)
(***************************************************************************)
getOidcClient ==
    IF oidcClient # 0 THEN "cached"
    ELSE IF config.tenantId = "" \/ config.clientId = "" \/ config.clientSecret = ""
         THEN "throw"
         ELSE "discover"

\* a request of this kind arrives in slot r with this cookie and query
NewRequest(kind, cookie, query) ==
    LET l == LoadSession(cookie)
    IN  [pc |-> "start", kind |-> kind, sid |-> l.sid,
         origSid |-> l.sid, sess |-> l.sess, orig |-> l.sess, query |-> query,
         txn |-> Null, tokenSet |-> Null, authorized |-> FALSE, exchanged |-> FALSE,
         idToken |-> Undefined, arrivedAt |-> now, checkedAt |-> -1]

\* the sessions alive in a store
Live(st) == {s \in Sids : st[s] # Null}

\* history: a callback that fails with one of AbortErrors aborts the login
\* attempt of its session; a login on the session begins a new attempt
Aborted(ab, rq, status, error) ==
    IF rq.kind = "callback" /\ error \in AbortErrors
    THEN ab \cup {rq.origSid}
    ELSE IF rq.kind = "login" /\ status = 302
    THEN ab \ {rq.origSid}
    ELSE ab

\* the response of request rq ends: the session is saved and the slot is free
Respond(r, rq, st, sid, sess, status, error, location) ==
    /\ store' = SaveSession(st, rq, sid, sess)
    /\ issued' = IF Saved(rq, sid, sess) THEN issued \cup {sid} ELSE issued
    /\ req' = [req EXCEPT ![r] = Idle]
    /\ aborted' = IF aborted.kept
                  THEN [aborted EXCEPT !.sids =
                           Aborted(aborted.sids, rq, status, error)
                               \cap Live(SaveSession(st, rq, sid, sess))]
                  ELSE aborted
    /\ response' = [kind |-> rq.kind, query |-> rq.query,
                sidBefore |-> rq.origSid, sidAfter |-> sid,
                before |-> rq.orig, after |-> sess,
                abortedBefore |-> rq.origSid \in aborted.sids,
                status |-> status, error |-> error, location |-> location,
                exchanged |-> rq.exchanged, tokenSet |-> rq.tokenSet,
                arrivedAt |-> rq.arrivedAt, checkedAt |-> rq.checkedAt]

(***************************************************************************)
(* GET /auth/login                                                         *)
(***************************************************************************)
\* generators.codeChallenge: the S256 challenge of a verifier
codeChallenge(codeVerifier) == <<"S256", codeVerifier>>

\* a beginLogin that keeps the nonce and the verifier of a transaction that is
\* already pending
buildAuthorizationUrl_KeepsNonce(session, returnTo) ==
    LET old == session.oidcTransaction
    IN  [session |-> [session EXCEPT !.oidcTransaction =
                         [state |-> nextRand,
                          nonce |-> IF old = Null THEN nextRand ELSE old.nonce,
                          codeVerifier |-> IF old = Null THEN nextRand
                                           ELSE old.codeVerifier,
                          returnTo |-> validateReturnTo(returnTo, config.baseUrl),
                          createdAt |-> now]],
         authUrl |-> [endpoint |-> "authorize", scope |-> "openid profile email",
                      state |-> nextRand, nonce |-> nextRand,
                      code_challenge |-> codeChallenge(nextRand),
                      code_challenge_method |-> "S256"]]

\* buildAuthorizationUrl after the client is there: the transaction is stored
\* on the session and the authorization URL returned
buildAuthorizationUrl(session, returnTo) ==
    [session |-> [session EXCEPT !.oidcTransaction =
                     [state |-> nextRand, nonce |-> nextRand,
                      codeVerifier |-> nextRand,
                      returnTo |-> validateReturnTo(returnTo, config.baseUrl),
                      createdAt |-> now]],
     authUrl |-> [endpoint |-> "authorize", scope |-> "openid profile email",
                  state |-> nextRand, nonce |-> nextRand,
                  code_challenge |-> codeChallenge(nextRand),
                  code_challenge_method |-> "S256"]]

\* router.get('/login'): const returnTo = req.query.returnTo || '/chat.html'
LoginReturnTo(query) ==
    IF query.returnTo.t = "undefined" \/ (query.returnTo.t = "string" /\ query.returnTo.v = <<>>)
    THEN Str(ChatHtml)
    ELSE query.returnTo

\* the /login handler once getOidcClient has returned (or thrown)
LoginFinish(r, rq, st, clientError) ==
    IF clientError # "none"
    THEN /\ Respond(r, rq, st, rq.sid, rq.sess, 500, clientError, Null)
         /\ UNCHANGED nextRand
    ELSE LET b == buildAuthorizationUrl(rq.sess, LoginReturnTo(rq.query))
         IN  /\ Respond(r, rq, st, rq.sid, b.session, 302, "none", b.authUrl)
             /\ nextRand' = nextRand + 1


(***************************************************************************)
(* GET /auth/callback                                                      *)
(***************************************************************************)
\* handleCallback for which a transaction of exactly 5 minutes has expired
handleCallback_ExpiredAtTtl(session, query) ==
    LET oidcTransaction == session.oidcTransaction
        deleted == [session EXCEPT !.oidcTransaction = Null]
    IN  IF oidcTransaction = Null
        THEN [outcome |-> "NoTransaction", session |-> session, txn |-> Null]
        ELSE IF now - oidcTransaction.createdAt >= TRANSACTION_TTL
        THEN [outcome |-> "TransactionExpired", session |-> deleted, txn |-> Null]
        ELSE IF query.state # oidcTransaction.state
        THEN [outcome |-> "StateMismatch", session |-> deleted, txn |-> Null]
        ELSE [outcome |-> "exchange", session |-> session, txn |-> oidcTransaction]

\* handleCallback that leaves the transaction in place on a state mismatch
handleCallback_KeepsOnMismatch(session, query) ==
    LET oidcTransaction == session.oidcTransaction
        deleted == [session EXCEPT !.oidcTransaction = Null]
    IN  IF oidcTransaction = Null
        THEN [outcome |-> "NoTransaction", session |-> session, txn |-> Null]
        ELSE IF now - oidcTransaction.createdAt > TRANSACTION_TTL
        THEN [outcome |-> "TransactionExpired", session |-> deleted, txn |-> Null]
        ELSE IF query.state # oidcTransaction.state
        THEN [outcome |-> "StateMismatch", session |-> session, txn |-> Null]
        ELSE [outcome |-> "exchange", session |-> session, txn |-> oidcTransaction]

\* handleCallback that, on a state mismatch, clears the user with the
\* transaction
handleCallback_DropsUser(session, query) ==
    LET oidcTransaction == session.oidcTransaction
        deleted == [session EXCEPT !.oidcTransaction = Null]
    IN  IF oidcTransaction = Null
        THEN [outcome |-> "NoTransaction", session |-> session, txn |-> Null]
        ELSE IF now - oidcTransaction.createdAt > TRANSACTION_TTL
        THEN [outcome |-> "TransactionExpired", session |-> deleted, txn |-> Null]
        ELSE IF query.state # oidcTransaction.state
        THEN [outcome |-> "StateMismatch", session |-> EmptySession, txn |-> Null]
        ELSE [outcome |-> "exchange", session |-> session, txn |-> oidcTransaction]

\* handleCallback from the transaction checks up to the token exchange
handleCallback(session, query) ==
    LET oidcTransaction == session.oidcTransaction
        deleted == [session EXCEPT !.oidcTransaction = Null]
    IN  IF oidcTransaction = Null
        THEN [outcome |-> "NoTransaction", session |-> session, txn |-> Null]
        ELSE IF now - oidcTransaction.createdAt > TRANSACTION_TTL
        THEN [outcome |-> "TransactionExpired", session |-> deleted, txn |-> Null]
        ELSE IF query.state # oidcTransaction.state
        THEN [outcome |-> "StateMismatch", session |-> deleted, txn |-> Null]
        ELSE [outcome |-> "exchange", session |-> session, txn |-> oidcTransaction]

\* handleCallback that does not compare the ID token's nonce
handleCallbackClaims_NoNonce(session, txn, tokenSet) ==
    [outcome |-> "ok", session |-> [session EXCEPT !.oidcTransaction = Null]]

\* handleCallback after client.callback has returned the token set
handleCallbackClaims(session, txn, tokenSet) ==
    IF tokenSet.claims.nonce # txn.nonce
    THEN [outcome |-> "NonceMismatch", session |-> session]
    ELSE [outcome |-> "ok", session |-> [session EXCEPT !.oidcTransaction = Null]]

\* checkGroupMembership that looks for the overage indicator before the list
checkGroupMembership_OverageFirst(claims) ==
    IF config.allowedGroupId = ""
    THEN [ok |-> TRUE, value |-> TRUE]
    ELSE IF claims.claim_names.t = "object" /\ Truthy(claims.claim_names.groups)
    THEN [ok |-> FALSE, error |-> "GroupOverage"]
    ELSE IF claims.groups.t = "array"
    THEN [ok |-> TRUE,
          value |-> \E i \in 1..Len(claims.groups.v) :
                        claims.groups.v[i] = config.allowedGroupId]
    ELSE [ok |-> FALSE, error |-> "GroupClaimMissing"]

\* checkGroupMembership(claims, tokenSet)
checkGroupMembership(claims) ==
    IF config.allowedGroupId = ""
    THEN [ok |-> TRUE, value |-> TRUE]
    ELSE IF claims.groups.t = "array"
    THEN [ok |-> TRUE,
          value |-> \E i \in 1..Len(claims.groups.v) :
                        claims.groups.v[i] = config.allowedGroupId]
    ELSE IF claims.claim_names.t = "object" /\ Truthy(claims.claim_names.groups)
    THEN [ok |-> FALSE, error |-> "GroupOverage"]
    ELSE [ok |-> FALSE, error |-> "GroupClaimMissing"]

\* a user record that never says authorized
UserRecord_NeverAuthorized(claims, authorized, tokenSet) ==
    [sub |-> claims.sub,
     email |-> Or(Or(claims.email, claims.preferred_username), claims.upn),
     name |-> claims.name,
     authorized |-> FALSE,
     idToken |-> tokenSet.id_token]

\* the user record the callback route builds from the claims
UserRecord(claims, authorized, tokenSet) ==
    [sub |-> claims.sub,
     email |-> Or(Or(claims.email, claims.preferred_username), claims.upn),
     name |-> claims.name,
     authorized |-> authorized,
     idToken |-> tokenSet.id_token]

\* the /callback handler once getOidcClient has returned (or thrown)
CallbackWithClient(r, rq, st, clientError) ==
    /\ UNCHANGED nextRand
    /\ IF clientError # "none"
       THEN Respond(r, rq, st, rq.sid, rq.sess, 400, clientError, Null)
       ELSE LET h == handleCallback(rq.sess, rq.query)
                rq2 == [rq EXCEPT !.checkedAt = now]
            IN  IF h.outcome = "exchange" /\ ~Truthy(rq.query.code)
                THEN Respond(r, rq2, st, rq.sid, rq.sess, 400, "NoIdToken", Null)
                ELSE IF h.outcome = "exchange"
                THEN /\ req' = [req EXCEPT ![r] =
                                   [rq2 EXCEPT !.pc = "exchange", !.txn = h.txn,
                                               !.exchanged = TRUE]]
                     /\ store' = st
                     /\ response' = NoResponse
                     /\ UNCHANGED <<issued, aborted>>
                ELSE Respond(r, rq2, st, rq.sid, h.session, 400, h.outcome, Null)

(***************************************************************************)
(* GET /auth/logout                                                        *)
(***************************************************************************)
\* buildLogoutUrl(idTokenHint) after the client is there
buildLogoutUrl(idTokenHint) ==
    [endpoint |-> "logout", post_logout_redirect_uri |-> <<config.baseUrl, "/">>,
     id_token_hint |-> IF Truthy(idTokenHint) THEN idTokenHint ELSE Undefined]

\* the destroy callback of /logout once getOidcClient has returned (or thrown)
LogoutFinish(r, rq, st, clientError) ==
    /\ UNCHANGED nextRand
    /\ IF clientError # "none"
       THEN Respond(r, rq, st, rq.sid, rq.sess, 302, "none", Slash)
       ELSE Respond(r, rq, st, rq.sid, rq.sess, 302, "none", buildLogoutUrl(rq.idToken))

(***************************************************************************)
(* A handler calls getOidcClient and goes on with its result.              *)
(***************************************************************************)
Continue(r, rq, st, clientError) ==
    CASE rq.kind = "login" -> LoginFinish(r, rq, st, clientError)
      [] rq.kind = "callback" -> CallbackWithClient(r, rq, st, clientError)
      [] rq.kind = "logout" -> LogoutFinish(r, rq, st, clientError)

WithClient(r, rq, st) ==
    CASE getOidcClient = "cached" ->
            /\ Continue(r, rq, st, "none")
            /\ UNCHANGED discoverCalls
      [] getOidcClient = "throw" ->
            /\ Continue(r, rq, st, "NotConfigured")
            /\ UNCHANGED discoverCalls
      [] getOidcClient = "discover" ->
            /\ discoverCalls < MaxDiscover
            /\ discoverCalls' = discoverCalls + 1
            /\ req' = [req EXCEPT ![r] = [rq EXCEPT !.pc = "discover"]]
            /\ store' = st
            /\ response' = NoResponse
            /\ UNCHANGED <<aborted, issued, nextRand>>

\* the logins in flight, each of which will draw fresh randoms
LoginsInFlight == Cardinality({x \in InFlight : req[x].kind = "login"})

LoginRequest(r, cookie, returnTo) ==
    /\ OidcConfigured
    /\ FreeSlot(r)
    /\ CanLoad(cookie)
    /\ nextRand + LoginsInFlight <= MaxLogins
    /\ WithClient(r, NewRequest("login", cookie, [returnTo |-> returnTo]), store)
    /\ UNCHANGED <<call, config, redisClient, redisStore, oidcClient, clientsCreated, now, ticks>>

\* GET /auth/callback with this query: error, state and code
Callback(r, cookie, query) ==
    /\ OidcConfigured
    /\ FreeSlot(r)
    /\ CanLoad(cookie)
    /\ LET rq == NewRequest("callback", cookie, query)
       IN  IF Truthy(query.error)
           THEN /\ Respond(r, rq, store, rq.sid, rq.sess, 400, "ProviderError", Null)
                /\ UNCHANGED <<discoverCalls, nextRand>>
           ELSE WithClient(r, rq, store)
    /\ UNCHANGED <<call, config, redisClient, redisStore, oidcClient, clientsCreated, now, ticks>>

\* the callback as the provider redirects to it: with an authorization code
CallbackRequest(r, cookie, error, state) ==
    Callback(r, cookie, [error |-> error, state |-> state, code |-> "code"])

LogoutRequest(r, cookie) ==
    /\ OidcConfigured
    /\ FreeSlot(r)
    /\ CanLoad(cookie)
    /\ LET rq == NewRequest("logout", cookie, [none |-> TRUE])
       IN  req' = [req EXCEPT ![r] =
                      [rq EXCEPT !.pc = "destroy", !.sess = Null,
                                 !.idToken = IF rq.sess.user = Null THEN Undefined
                                             ELSE rq.sess.user.idToken]]
    /\ response' = NoResponse
    /\ UNCHANGED aborted
    /\ UNCHANGED <<call, config, redisClient, redisStore, oidcClient, discoverCalls, clientsCreated, store, issued,
                   nextRand, now, ticks>>

\* a discovery whose rejection leaves a client cached all the same
DiscoverDone_CachesOnFailure(r, ok) ==
    /\ req[r].pc = "discover"
    /\ clientsCreated' = clientsCreated + 1
    /\ oidcClient' = clientsCreated + 1
    /\ Continue(r, req[r], store, IF ok THEN "none" ELSE "ProviderUnreachable")
    /\ UNCHANGED <<call, config, redisClient, redisStore, discoverCalls, now, ticks>>

\* Issuer.discover resolves or rejects; on success the client is constructed
\* and cached
DiscoverDone(r, ok) ==
    /\ req[r].pc = "discover"
    /\ IF ok
       THEN /\ clientsCreated' = clientsCreated + 1
            /\ oidcClient' = clientsCreated + 1
            /\ Continue(r, req[r], store, "none")
       ELSE /\ UNCHANGED <<clientsCreated, oidcClient>>
            /\ Continue(r, req[r], store, "ProviderUnreachable")
    /\ UNCHANGED <<call, config, redisClient, redisStore, discoverCalls, now, ticks>>

\* client.callback resolves with a token set or rejects
ExchangeDone(r, ok, ts, nonce) ==
    /\ req[r].pc = "exchange"
    /\ nonce \in {0, req[r].txn.nonce}
    /\ LET rq == req[r]
           tokenSet == [ts EXCEPT !.claims = [nonce |-> nonce] @@ ts.claims]
       IN  IF ~ok
           THEN Respond(r, rq, store, rq.sid, rq.sess, 400, "TokenExchangeFailed", Null)
           ELSE LET h == handleCallbackClaims(rq.sess, rq.txn, tokenSet)
                    g == checkGroupMembership(tokenSet.claims)
                    rq2 == [rq EXCEPT !.tokenSet = tokenSet]
                IN  IF h.outcome # "ok"
                    THEN Respond(r, rq, store, rq.sid, h.session, 400, h.outcome, Null)
                    ELSE IF ~g.ok
                    THEN Respond(r, rq, store, rq.sid, h.session, 400, g.error, Null)
                    ELSE /\ req' = [req EXCEPT ![r] =
                                [rq2 EXCEPT !.pc = "regenerate", !.authorized = g.value,
                                     !.sess = [h.session EXCEPT !.user =
                                         UserRecord(tokenSet.claims, g.value, tokenSet)]]]
                         /\ response' = NoResponse
                         /\ UNCHANGED <<aborted, store, issued>>
    /\ UNCHANGED <<call, config, redisClient, redisStore, oidcClient, discoverCalls, clientsCreated, nextRand, now, ticks>>

\* a callback that writes the user on the session it has, with no regeneration
RegenerateDone_KeepsId(r, destroyed) ==
    /\ req[r].pc = "regenerate"
    /\ LET rq == req[r]
           safeReturnTo == validateReturnTo(Str(rq.txn.returnTo), config.baseUrl)
       IN  Respond(r, rq, store, rq.sid, rq.sess, 302, "none", safeReturnTo)
    /\ UNCHANGED <<call, config, redisClient, redisStore, oidcClient, discoverCalls, clientsCreated, nextRand, now, ticks>>

\* a callback that redirects to the stored returnTo as it is
RegenerateDone_StoredReturnTo(r, destroyed) ==
    /\ req[r].pc = "regenerate"
    /\ FreeSids # {}
    /\ LET rq == req[r]
           st == IF destroyed THEN [store EXCEPT ![rq.sid] = Null] ELSE store
           session == [EmptySession EXCEPT !.user =
                          UserRecord(rq.tokenSet.claims, rq.authorized, rq.tokenSet)]
       IN  Respond(r, rq, st, GenerateId, session, 302, "none", rq.txn.returnTo)
    /\ UNCHANGED <<call, config, redisClient, redisStore, oidcClient, discoverCalls,
                   clientsCreated, nextRand, now, ticks>>

\* a callback that redirects at once and writes the user afterwards, too late
\* for the save at the end of the response
RegenerateDone_RedirectFirst(r, destroyed) ==
    /\ req[r].pc = "regenerate"
    /\ FreeSids # {}
    /\ LET rq == req[r]
           st == IF destroyed THEN [store EXCEPT ![rq.sid] = Null] ELSE store
           safeReturnTo == validateReturnTo(Str(rq.txn.returnTo), config.baseUrl)
       IN  Respond(r, rq, st, GenerateId, EmptySession, 302, "none", safeReturnTo)
    /\ UNCHANGED <<call, config, redisClient, redisStore, oidcClient, discoverCalls,
                   clientsCreated, nextRand, now, ticks>>

\* req.session.regenerate: the store destroys the old session (or fails to), a
\* new session with a new identifier replaces it on the request, and the
\* callback writes the user and redirects
RegenerateDone(r, destroyed) ==
    /\ req[r].pc = "regenerate"
    /\ FreeSids # {}
    /\ LET rq == req[r]
           st == IF destroyed THEN [store EXCEPT ![rq.sid] = Null] ELSE store
           session == [EmptySession EXCEPT !.user =
                          UserRecord(rq.tokenSet.claims, rq.authorized, rq.tokenSet)]
           safeReturnTo == validateReturnTo(Str(rq.txn.returnTo), config.baseUrl)
       IN  Respond(r, rq, st, GenerateId, session, 302, "none", safeReturnTo)
    /\ UNCHANGED <<call, config, redisClient, redisStore, oidcClient, discoverCalls, clientsCreated, nextRand, now, ticks>>

\* req.session.destroy in /logout: the store destroys the session (or fails
\* to), then the logout URL is built
DestroyDone(r, destroyed) ==
    /\ req[r].pc = "destroy"
    /\ LET rq == req[r]
           st == IF destroyed THEN [store EXCEPT ![rq.sid] = Null] ELSE store
       IN  WithClient(r, rq, st)
    /\ UNCHANGED <<call, config, redisClient, redisStore, oidcClient, clientsCreated, now, ticks>>

(***************************************************************************)
(* Time and the store's TTL.                                               *)
(***************************************************************************)
Tick(d) ==
    /\ ticks < MaxTicks
    /\ \E sid \in Sids : store[sid] # Null /\ store[sid].oidcTransaction # Null
    /\ ticks' = ticks + 1
    /\ now' = now + d
    /\ response' = NoResponse
    /\ UNCHANGED aborted
    /\ UNCHANGED <<call, config, redisClient, redisStore, oidcClient, discoverCalls, clientsCreated, store, issued,
                   nextRand, req>>

\* a stored session reaches its TTL (ttl: 86400) and the store drops it
Expire(sid) ==
    /\ store[sid] # Null
    /\ store' = [store EXCEPT ![sid] = Null]
    /\ response' = NoResponse
    /\ aborted' = [aborted EXCEPT !.sids = @ \ {sid}]
    /\ UNCHANGED <<call, config, redisClient, redisStore, oidcClient, discoverCalls, clientsCreated, issued,
                   nextRand, now, ticks, req>>

(***************************************************************************)
(* The guards and the chat page.                                           *)
(***************************************************************************)
\* encodeURIComponent: every character but the unreserved ones becomes its
\* percent escape
Escapes ==
    [c \in {"/", "?", "=", "&", "%", "+", "#"} |->
        CASE c = "/" -> <<"%", "2", "F">>
          [] c = "?" -> <<"%", "3", "F">>
          [] c = "=" -> <<"%", "3", "D">>
          [] c = "&" -> <<"%", "2", "6">>
          [] c = "%" -> <<"%", "2", "5">>
          [] c = "+" -> <<"%", "2", "B">>
          [] c = "#" -> <<"%", "2", "3">>]

RECURSIVE encodeURIComponent(_)
encodeURIComponent(s) ==
    IF s = <<>> THEN <<>>
    ELSE (IF Head(s) \in DOMAIN Escapes THEN Escapes[Head(s)] ELSE <<Head(s)>>)
         \o encodeURIComponent(Tail(s))

\* the query parser's decoding of a value: "+" is a space and a percent
\* escape is its character
RECURSIVE DecodeValue(_)
DecodeValue(s) ==
    IF s = <<>> THEN <<>>
    ELSE IF Head(s) = "+" THEN <<" ">> \o DecodeValue(Tail(s))
    ELSE IF Head(s) = "%" /\ Len(s) >= 3 /\
            \E c \in DOMAIN Escapes : Escapes[c] = SubSeq(s, 1, 3)
    THEN <<CHOOSE c \in DOMAIN Escapes : Escapes[c] = SubSeq(s, 1, 3)>>
         \o DecodeValue(SubSeq(s, 4, Len(s)))
    ELSE <<Head(s)>> \o DecodeValue(Tail(s))

\* req.query.returnTo of a URL whose query string begins with returnTo=: the
\* value runs to the next "&" (or to the fragment) and is decoded
QueryReturnTo(search) ==
    LET value == SubSeq(search, 2, Len(search))
    IN  DecodeValue(SubSeq(value, 1, FirstOf(value, {"&", "#"}, 1) - 1))

\* the path of a request URL: what precedes the query string
PathOf(url) == SubSeq(url, 1, FirstOf(url, {"?"}, 1) - 1)

\* requireAuth that puts the original URL into the redirect as it is
requireAuth_RawReturnTo(session, originalUrl, accept, xhr) ==
    IF session.user # Null
    THEN [next |-> TRUE]
    ELSE IF xhr \/ (accept.t = "string" /\ accept.v # <<>> /\ Includes(accept.v, <<"J">>))
    THEN [next |-> FALSE, status |-> 401, body |-> [error |-> "Not authenticated"],
          location |-> Null]
    ELSE [next |-> FALSE, status |-> 302, body |-> Null,
          location |-> [path |-> "/auth/login",
                        search |-> <<"=">> \o originalUrl]]

\* requireAuth(req, res, next); "J" in an Accept header stands for the text
\* application/json
requireAuth(session, originalUrl, accept, xhr) ==
    IF session.user # Null
    THEN [next |-> TRUE]
    ELSE IF xhr \/ (accept.t = "string" /\ accept.v # <<>> /\ Includes(accept.v, <<"J">>))
    THEN [next |-> FALSE, status |-> 401, body |-> [error |-> "Not authenticated"],
          location |-> Null]
    ELSE [next |-> FALSE, status |-> 302, body |-> Null,
          location |-> [path |-> "/auth/login",
                        search |-> <<"=">> \o encodeURIComponent(originalUrl)]]

\* res.status(403).render: the response object's render method, a function
\* on every express response
ResRender == "function"

\* requireGroup(req, res, next): the 403 is the page when
\* res.status(403).render is truthy and the JSON error otherwise
requireGroup(session) ==
    IF session.user = Null
    THEN [next |-> FALSE, status |-> 401, body |-> [error |-> "Not authenticated"]]
    ELSE IF session.user.authorized # TRUE
    THEN [next |-> FALSE, status |-> 403,
          body |-> IF Truthy(ResRender) THEN [html |-> "Access Denied"]
                   ELSE [error |-> "Access denied. Not in allowed group."]]
    ELSE [next |-> TRUE]

\* express.static(__dirname): a GET whose path is that of a file of the
\* directory is answered with the file; chat.html lies there, next to server.js
ServedStatic(path) == path = ChatHtml

\* app.get('/chat.html', ...): the route matches its path, with or without a
\* trailing slash
ChatRoute(path) == path \in {ChatHtml, ChatHtml \o <<"/">>}

\* a GET for the chat page goes through the session middleware, the static
\* middleware, and then the route with its guards (or without them, when OIDC
\* is not configured); it leaves the session as it was
ChatRequest(cookie, url, accept, xhr) ==
    /\ CanLoad(cookie)
    /\ ChatRoute(PathOf(url))
    /\ LET session == LoadSession(cookie).sess
           a == requireAuth(session, url, accept, xhr)
           g == requireGroup(session)
           page == [status |-> 200, body |-> [file |-> "chat.html"], location |-> Null]
           out ==
               IF ServedStatic(PathOf(url))
               THEN page @@ [by |-> "static", ranAuth |-> FALSE, handler |-> FALSE]
               ELSE IF ~OidcConfigured
               THEN page @@ [by |-> "route", ranAuth |-> FALSE, handler |-> TRUE]
               ELSE IF ~a.next
               THEN [status |-> a.status, body |-> a.body, location |-> a.location,
                     by |-> "requireAuth", ranAuth |-> TRUE, handler |-> FALSE]
               ELSE IF ~g.next
               THEN [status |-> g.status, body |-> g.body, location |-> Null,
                     by |-> "requireGroup", ranAuth |-> TRUE, handler |-> FALSE]
               ELSE page @@ [by |-> "route", ranAuth |-> TRUE, handler |-> TRUE]
       IN  response' = [kind |-> "chat", cookie |-> cookie, url |-> url,
                        accept |-> accept, xhr |-> xhr, before |-> session] @@ out
    /\ UNCHANGED <<call, config, redisClient, redisStore, oidcClient, discoverCalls, clientsCreated, store,
                   issued, nextRand, now, ticks, req, aborted>>

\* the request URLs and the headers a request for the chat page may carry
ChatUrls ==
    {ChatHtml, ChatHtml \o <<"/">>,
     ChatHtml \o <<"/", "?", "a", "=", "b", "&", "+", "%", "2", "F">>}

\* the Accept and X-Requested-With headers: [accept, xhr]
ChatHeaders ==
    {[accept |-> UndefinedVal, xhr |-> FALSE], [accept |-> Str(<<"H">>), xhr |-> FALSE],
     [accept |-> Str(<<"H", ",", "J">>), xhr |-> FALSE],
     [accept |-> UndefinedVal, xhr |-> TRUE]}

(***************************************************************************)
(* A call of checkGroupMembership.                                         *)
(***************************************************************************)
Evaluate(claims) ==
    /\ call' = [fn |-> "checkGroupMembership", claims |-> claims,
                result |-> checkGroupMembership(claims)]
    /\ UNCHANGED <<config, redisClient, redisStore, oidcClient, discoverCalls, clientsCreated, store, issued,
                   nextRand, now, ticks, req, response, aborted>>

(***************************************************************************)
(* What every request passes before its route: express.json (server.js     *)
(* line 22) and the session middleware (line 31); an error of either goes  *)
(* to the error handler (lines 210-213).                                   *)
(***************************************************************************)
\* the bodies a request may carry: none, JSON, or text that is not JSON
Bodies == {"none", "json", "malformed"}

\* req.body after express.json: the parsed body, or {} when there was none
ParsedBody(body) == IF body = "json" THEN "parsed" ELSE "{}"

\* the error handler's answer
InternalError == [status |-> 500, body |-> [error |-> "Internal server error"]]

\* the middleware before the routes: express.json rejects a malformed body;
\* express-session gets the session of a cookie from the store, which fails
\* when the store is the Redis store and Redis does not answer (up is false)
Middleware(cookie, body, up) ==
    IF body = "malformed"
    THEN [ok |-> FALSE, by |-> "express.json"]
    ELSE IF cookie # 0 /\ redisStore = 1 /\ ~up
    THEN [ok |-> FALSE, by |-> "session"]
    ELSE [ok |-> TRUE, session |-> LoadSession(cookie).sess]

\* a step that answers a request and changes nothing else
Answer(resp) ==
    /\ response' = resp
    /\ UNCHANGED <<call, config, redisClient, redisStore, oidcClient, discoverCalls,
                   clientsCreated, store, issued, nextRand, now, ticks, req, aborted>>

(***************************************************************************)
(* GET /auth/status                                                        *)
(***************************************************************************)
\* a report that hands out the whole user record
StatusReport_WholeUser(session) ==
    IF session.user # Null
    THEN [authenticated |-> TRUE, user |-> session.user]
    ELSE [authenticated |-> FALSE]

\* the JSON the /status handler sends for this session
StatusReport(session) ==
    IF session.user # Null
    THEN [authenticated |-> TRUE,
          user |-> [email |-> session.user.email, name |-> session.user.name,
                    authorized |-> session.user.authorized]]
    ELSE [authenticated |-> FALSE]

StatusRequest(cookie, body, up) ==
    /\ OidcConfigured
    /\ CanLoad(cookie)
    /\ cookie = 0 => up
    /\ LET m == Middleware(cookie, body, up)
       IN  Answer([kind |-> "status", cookie |-> cookie, reqBody |-> body, up |-> up,
                   passed |-> m.ok, before |-> IF m.ok THEN m.session ELSE Null]
                  @@ (IF ~m.ok THEN InternalError
                      ELSE [status |-> 200, body |-> StatusReport(m.session)]))

(***************************************************************************)
(* GET /healthz and GET /readyz                                            *)
(***************************************************************************)
\* checkRedisHealth(): without a client, healthy when no REDIS_URL is
\* configured; with one, healthy when its ping is answered
checkRedisHealth(pingOk) ==
    IF redisClient = 0 THEN config.redisUrl = "" ELSE pingOk

HealthzRequest(cookie, body, up) ==
    /\ CanLoad(cookie)
    /\ cookie = 0 => up
    /\ LET m == Middleware(cookie, body, up)
       IN  Answer([kind |-> "healthz", cookie |-> cookie, reqBody |-> body, up |-> up]
                  @@ (IF ~m.ok THEN InternalError
                      ELSE [status |-> 200, body |-> [status |-> "ok"]]))

ReadyzRequest(cookie, body, up, pingOk) ==
    /\ CanLoad(cookie)
    /\ cookie = 0 => up
    /\ LET m == Middleware(cookie, body, up)
           redisHealthy == checkRedisHealth(pingOk)
       IN  Answer([kind |-> "readyz", cookie |-> cookie, reqBody |-> body, up |-> up,
                   pingOk |-> pingOk]
                  @@ (IF ~m.ok THEN InternalError
                      ELSE IF redisHealthy
                      THEN [status |-> 200,
                            body |-> [status |-> "ready", redis |-> "connected"]]
                      ELSE [status |-> 503,
                            body |-> [status |-> "not ready", redis |-> "disconnected"]]))

(***************************************************************************)
(* ALL /proxy/webhook and ALL /proxy/webhook-test                          *)
(***************************************************************************)
\* a check that lets any session with a user pass, authorized or not
authenticateProxy_AnyUser(session, jwt) ==
    IF session.user # Null
    THEN TRUE
    ELSE config.enablePasswordLogin /\ jwt # "none" /\ jwt = "valid"

\* authenticateProxy that verifies the legacy cookie whatever the flag
authenticateProxy_AlwaysJwt(session, jwt) ==
    IF session.user # Null /\ session.user.authorized = TRUE
    THEN TRUE
    ELSE jwt # "none" /\ jwt = "valid"

\* authenticateProxy: the session of an authorized user, or, with the legacy
\* login enabled, a cookie named session that jwt.verify accepts; jwt is
\* "none" (no such cookie), "valid" or "invalid"
authenticateProxy(session, jwt) ==
    IF session.user # Null /\ session.user.authorized = TRUE
    THEN TRUE
    ELSE config.enablePasswordLogin /\ jwt # "none" /\ jwt = "valid"

\* a test route that knows the test URL only
Target_NoFallback(route) ==
    IF route = "webhook" THEN config.webhookUrl ELSE config.webhookUrlTest

\* the downstream target of a route
Target(route) ==
    IF route = "webhook" THEN config.webhookUrl
    ELSE Or(config.webhookUrlTest, config.webhookUrl)

\* Buffer.from(`${username}:${password}`).toString('base64')
Base64(username, password) == <<"base64", username, ":", password>>

\* the request to the downstream with the caller's Authorization header
UpstreamRequest_CallerAuthorization(target, q) ==
    [url |-> target, method |-> q.method,
     headers |-> [contentType |-> Or(q.contentType, "application/json"),
                  authorization |->
                      IF q.authorization # <<>> THEN q.authorization
                      ELSE <<"Basic">> \o Base64(config.username, config.password)],
     body |-> IF q.method \in {"GET", "HEAD"} THEN UndefinedVal
              ELSE Str(<<"JSON.stringify", ParsedBody(q.body)>>)]

\* the request the handler sends to the downstream for the caller's request q
UpstreamRequest(target, q) ==
    [url |-> target, method |-> q.method,
     headers |-> [contentType |-> Or(q.contentType, "application/json"),
                  authorization |->
                      <<"Basic">> \o Base64(config.username, config.password)],
     body |-> IF q.method \in {"GET", "HEAD"} THEN UndefinedVal
              ELSE Str(<<"JSON.stringify", ParsedBody(q.body)>>)]

\* a header name is <<spelling, lower-cased name>>; k.toLowerCase()
ToLowerCase(k) == <<"lower", k[2]>>
Lower(name) == <<"lower", name>>

\* the upstream headers the handler does not copy
NotCopied == {Lower("transfer-encoding"), Lower("content-encoding"), Lower("connection")}

\* the copying that compares the names as they are spelled
CopiedHeaders_CaseSensitive(headers) ==
    {h \in headers : h.k \notin NotCopied}

\* upstream.headers.forEach: res.setHeader(k, v) unless k.toLowerCase() is one
\* of the three
CopiedHeaders(headers) ==
    {h \in headers : ToLowerCase(h.k) \notin NotCopied}

\* req.fresh: a GET or HEAD with If-None-Match: * and a 2xx or 304 status
Fresh(q, status) ==
    q.method \in {"GET", "HEAD"} /\ q.ifNoneMatch = "*" /\ status \in {200, 304}

\* res.send(text) on a response with this status and these headers:
\* Content-Type gets its charset, Content-Length is that of the text, an ETag
\* is added unless there is one, X-Powered-By is the application's unless the
\* handler has set one; a fresh request gets 304, and a 204 or 304 has
\* neither body nor Content-Type, Content-Length, Transfer-Encoding
Send(q, status, headers, text) ==
    LET named(n) == {h \in headers : ToLowerCase(h.k) = Lower(n)}
        others == {h \in headers : ToLowerCase(h.k) \notin
                      {Lower("content-type"), Lower("content-length"), Lower("etag")}}
        ctype == IF named("content-type") = {}
                 THEN {[k |-> Lower("content-type"), v |-> <<"text/html", "; charset=utf-8">>]}
                 ELSE {[k |-> h.k, v |-> h.v \o <<"; charset=utf-8">>] :
                          h \in named("content-type")}
        etag == IF named("etag") = {}
                THEN {[k |-> Lower("etag"), v |-> <<"etag of", text>>]}
                ELSE named("etag")
        clen == {[k |-> Lower("content-length"), v |-> <<"length of", text>>]}
        powered == IF named("x-powered-by") = {}
                   THEN {[k |-> Lower("x-powered-by"), v |-> <<"Express">>]}
                   ELSE {}
        st == IF Fresh(q, status) THEN 304 ELSE status
    IN  IF st \in {204, 304}
        THEN [status |-> st,
              headers |-> {h \in others : ToLowerCase(h.k) # Lower("transfer-encoding")}
                              \cup etag \cup powered,
              body |-> [text |-> ""]]
        ELSE [status |-> st,
              headers |-> others \cup ctype \cup etag \cup clen \cup powered,
              body |-> [text |-> IF q.method = "HEAD" THEN "" ELSE text]]

\* the answers of the downstream: fetch rejects, the reading of the body
\* rejects, or a response
Upstreams ==
    {[outcome |-> "fetch rejects"], [outcome |-> "text rejects"],
     [outcome |-> "response", status |-> 200, text |-> "hello",
      headers |-> {[k |-> <<"spelled", "content-type">>, v |-> <<"application/json">>],
                   [k |-> <<"spelled", "connection">>, v |-> <<"keep-alive">>],
                   [k |-> Lower("x-n8n"), v |-> <<"1">>]}],
     [outcome |-> "response", status |-> 404, text |-> "not found",
      headers |-> {[k |-> Lower("transfer-encoding"), v |-> <<"chunked">>],
                   [k |-> Lower("content-encoding"), v |-> <<"gzip">>],
                   [k |-> Lower("content-length"), v |-> <<"9">>],
                   [k |-> Lower("etag"), v |-> <<"e1">>]}]}

\* the caller's requests: method, body, Content-Type, Authorization (the
\* words of the header, none when it is absent) and If-None-Match
ProxyQueries ==
    {[method |-> "GET", body |-> "none", contentType |-> Undefined,
      authorization |-> <<>>, ifNoneMatch |-> Undefined],
     [method |-> "GET", body |-> "none", contentType |-> Undefined,
      authorization |-> <<"Bearer", "caller">>, ifNoneMatch |-> "*"],
     [method |-> "HEAD", body |-> "none", contentType |-> Undefined,
      authorization |-> <<>>, ifNoneMatch |-> Undefined],
     [method |-> "POST", body |-> "json", contentType |-> "application/json",
      authorization |-> <<"Bearer", "caller">>, ifNoneMatch |-> "*"],
     [method |-> "DELETE", body |-> "malformed", contentType |-> "text/plain",
      authorization |-> <<>>, ifNoneMatch |-> Undefined]}

ProxyRoutes == {"webhook", "webhook-test"}
Jwts == {"none", "valid", "invalid"}

\* a proxy request arrives: the middleware, authenticateProxy, the target,
\* and then the fetch, at which the handler waits
ProxyRequest(r, route, q, cookie, jwt, up) ==
    /\ FreeSlot(r)
    /\ CanLoad(cookie)
    /\ cookie = 0 => up
    /\ LET m == Middleware(cookie, q.body, up)
           rq == NewRequest("proxy", cookie, q)
           seen == [kind |-> "proxy", route |-> route, query |-> q, cookie |-> cookie,
                    jwt |-> jwt, up |-> up,
                    before |-> IF m.ok THEN m.session ELSE Null,
                    passed |-> m.ok, sent |-> <<>>, upstream |-> Null]
           answer(a) ==
               /\ response' = seen @@ a @@ [headers |-> {}]
               /\ UNCHANGED req
       IN  IF ~m.ok THEN answer(InternalError)
           ELSE IF ~authenticateProxy(m.session, jwt)
           THEN answer([status |-> 401, body |-> [error |-> "Not authenticated"]])
           ELSE IF ~Truthy(Target(route))
           THEN answer([status |-> 500,
                        body |-> [error |-> "N8N webhook URL not configured"]])
           ELSE /\ req' = [req EXCEPT ![r] =
                              [rq EXCEPT !.pc = "fetch"] @@
                              [seen |-> [seen EXCEPT !.sent =
                                            <<UpstreamRequest(Target(route), q)>>]]]
                /\ response' = NoResponse
    /\ UNCHANGED <<call, config, redisClient, redisStore, oidcClient, discoverCalls,
                   clientsCreated, store, issued, nextRand, now, ticks, aborted>>

\* a handler that tries the downstream a second time when the first call fails
FetchDone_Retries(r, u) ==
    /\ req[r].pc = "fetch"
    /\ LET seen == [req[r].seen EXCEPT !.upstream = u]
           again == [seen EXCEPT !.sent = @ \o @]
       IN  response' =
               IF u.outcome # "response"
               THEN again @@ [status |-> 500, body |-> [error |-> "Proxy error"],
                              headers |-> {}]
               ELSE seen @@ Send(seen.query, u.status, CopiedHeaders(u.headers), u.text)
    /\ req' = [req EXCEPT ![r] = Idle]
    /\ UNCHANGED <<call, config, redisClient, redisStore, oidcClient, discoverCalls,
                   clientsCreated, store, issued, nextRand, now, ticks, aborted>>

\* the downstream has answered, or the call has failed: the upstream's status,
\* headers and text are passed on, or the catch answers 500
FetchDone(r, u) ==
    /\ req[r].pc = "fetch"
    /\ LET seen == [req[r].seen EXCEPT !.upstream = u]
       IN  response' =
               IF u.outcome # "response"
               THEN seen @@ [status |-> 500, body |-> [error |-> "Proxy error"],
                             headers |-> {}]
               ELSE seen @@ Send(seen.query, u.status, CopiedHeaders(u.headers), u.text)
    /\ req' = [req EXCEPT ![r] = Idle]
    /\ UNCHANGED <<call, config, redisClient, redisStore, oidcClient, discoverCalls,
                   clientsCreated, store, issued, nextRand, now, ticks, aborted>>

States == 0..MaxLogins

\* the provider's answers and the query values a request may carry
Errors == {Undefined, "access_denied"}

\* the steps of the requests of the slots rs, with these inputs
Flow(rs, returnTos, errors, tokenSets) ==
    \/ \E r \in rs, c \in Cookies, rt \in returnTos : LoginRequest(r, c, rt)
    \/ \E r \in rs, c \in Cookies, e \in errors, s \in States :
          CallbackRequest(r, c, e, s)
    \/ \E r \in rs, c \in Cookies : LogoutRequest(r, c)
    \/ \E r \in rs, ok \in BOOLEAN : DiscoverDone(r, ok)
    \/ \E r \in rs, ok \in BOOLEAN, ts \in tokenSets, n \in States :
          ExchangeDone(r, ok, ts, n)
    \/ \E r \in rs, d \in BOOLEAN : RegenerateDone(r, d)
    \/ \E r \in rs, d \in BOOLEAN : DestroyDone(r, d)

(***************************************************************************)
(* Spec: the login flows with every input, time and session expiry; the    *)
(* requests are handled one at a time (a request's awaits are still steps  *)
(* of their own, and time passes between them).                            *)
(***************************************************************************)
Next ==
    \/ Flow({1}, ReturnToInputs, Errors, TokenSets)
    \/ \E d \in {TRANSACTION_TTL, TRANSACTION_TTL + 1} : Tick(d)
    \/ \E sid \in Sids : Expire(sid)

Spec == Init /\ [][Next]_vars

(***************************************************************************)
(* SpecRace: two requests in flight at once, interleaved at their awaits,  *)
(* with the provider fully configured.                                     *)
(***************************************************************************)
FullConfigs == {c \in Configs : c.tenantId # "" /\ c.clientId # "" /\ c.clientSecret # ""}

RaceTokenSets == {ts \in TokenSets : ts.claims.sub = "u1" /\ ts.claims.groups.t = "array"}

InitRace == Start({c \in FullConfigs : c.allowedGroupId # ""}, FALSE)

NextRace == Flow(Reqs, {UndefinedVal}, {Undefined}, RaceTokenSets)

SpecRace == InitRace /\ [][NextRace]_vars

(***************************************************************************)
(* SpecAborts: the login flows one request at a time, with the history of  *)
(* the login attempts that a callback aborted.                             *)
(***************************************************************************)
InitAborts == Start({c \in FullConfigs : c.allowedGroupId # ""}, TRUE)

NextAborts ==
    \/ Flow({1}, {UndefinedVal}, Errors, RaceTokenSets)
    \/ \E d \in {TRANSACTION_TTL + 1} : Tick(d)
    \/ \E sid \in Sids : Expire(sid)

SpecAborts == InitAborts /\ [][NextAborts]_vars

(***************************************************************************)
(* SpecGuard: logins one request at a time, and requests for the chat      *)
(* page, under every configuration.                                        *)
(***************************************************************************)
GuardTokenSets == {ts \in TokenSets : ts.claims.groups.t = "array"}

NextGuard ==
    \/ Flow({1}, {UndefinedVal}, {Undefined}, GuardTokenSets)
    \/ \E c \in Cookies, url \in ChatUrls, h \in ChatHeaders :
          ChatRequest(c, url, h.accept, h.xhr)

InitGuard == Start({c \in Configs : c.clientSecret # ""}, FALSE)

SpecGuard == InitGuard /\ [][NextGuard]_vars

(***************************************************************************)
(* SpecHealth: one login at most (so that there are session cookies to     *)
(* look up), and the health and readiness requests, under every outcome    *)
(* of the store's startup.                                                 *)
(***************************************************************************)
OpsLogins == 1

\* the state and nonce values of these logins (0: none that was issued)
OpsStates == 0..OpsLogins

\* one login and its callback, with no logout; oks are the outcomes of the
\* provider's discovery and token exchange and of the old session's removal,
\* states the state values the callback carries
OneLogin(oks, states) ==
    \/ /\ \E c \in Cookies : LoginRequest(1, c, UndefinedVal)
       /\ nextRand' <= OpsLogins + 1
    \/ \E c \in Cookies, s \in states : CallbackRequest(1, c, Undefined, s)
    \/ \E ok \in oks : DiscoverDone(1, ok) /\ nextRand' <= OpsLogins + 1
    \/ \E ok \in oks, ts \in GuardTokenSets, n \in OpsStates :
          ExchangeDone(1, ok, ts, n)
    \/ \E d \in oks : RegenerateDone(1, d)

HealthConfigs ==
    [tenantId : {"tid"}, clientId : {"cid"}, clientSecret : {"sec"},
     allowedGroupId : {"g1"}, baseUrl : {"B"},
     isProduction : BOOLEAN, redisUrl : {"", "R"}]

\* loadConfig lets a production process start only with a REDIS_URL
InitHealth == Start({c \in HealthConfigs : c.isProduction => c.redisUrl # ""}, FALSE)

NextHealth ==
    \/ OneLogin(BOOLEAN, OpsStates)
    \/ \E c \in Cookies, b \in Bodies, up \in BOOLEAN : HealthzRequest(c, b, up)
    \/ \E c \in Cookies, b \in Bodies, up \in BOOLEAN, pingOk \in BOOLEAN :
          ReadyzRequest(c, b, up, pingOk)

SpecHealth == InitHealth /\ [][NextHealth]_vars

(***************************************************************************)
(* SpecProxy: one login at most, and the proxy requests, with sessions in  *)
(* Redis and every setting of the webhook URLs and of the legacy login.    *)
(***************************************************************************)
ProxyConfigs ==
    [tenantId : {"tid"}, clientId : {"cid"}, clientSecret : {"sec"},
     allowedGroupId : {"g1"}, baseUrl : {"B"},
     isProduction : {TRUE}, redisUrl : {"R"},
     webhookUrl : {"", "W"}, webhookUrlTest : {"", "T"},
     username : {"nu"}, password : {"np"}, enablePasswordLogin : BOOLEAN]

InitProxy == Start(ProxyConfigs, FALSE)

NextProxy ==
    \/ OneLogin({TRUE}, {1})
    \/ \E route \in ProxyRoutes, q \in ProxyQueries, c \in Cookies, jwt \in Jwts,
          up \in BOOLEAN : ProxyRequest(1, route, q, c, jwt, up)
    \/ \E u \in Upstreams : FetchDone(1, u)

SpecProxy == InitProxy /\ [][NextProxy]_vars

(***************************************************************************)
(* SpecGroup: the authorization evaluator on every configured group and    *)
(* every shape of the claims.                                              *)
(***************************************************************************)
MaxGroups == 2

GroupIds == {"g1", "g2", "g3"}

GroupConfigs ==
    [tenantId : {"tid"}, clientId : {"cid"}, clientSecret : {"sec"},
     allowedGroupId : {"", "g1", "g2"}, baseUrl : {"B"},
     isProduction : {FALSE}, redisUrl : {""}]

\* the groups claim: absent, a string, or a list of group identifiers
GroupsClaims ==
    {UndefinedVal, Str(<<"g1">>)}
        \cup {GroupsList(g) : g \in UNION {[1..n -> GroupIds] : n \in 0..MaxGroups}}

\* the _claim_names claim: absent, without a groups entry, or with one
ClaimNames == {NoClaimNames, [t |-> "object", groups |-> Undefined], Overage}

EvaluatorInputs ==
    {Person1 @@ [groups |-> g, claim_names |-> cn] : g \in GroupsClaims, cn \in ClaimNames}

InitGroup == Start(GroupConfigs, FALSE)

NextGroup == \E claims \in EvaluatorInputs : Evaluate(claims)

SpecGroup == InitGroup /\ [][NextGroup]_vars


(***************************************************************************)
(* loadConfig (src/lib/config.js): the environment is a record of the       *)
(* variables the function reads; a variable is unset (Undefined), empty or  *)
(* a text.                                                                  *)
(***************************************************************************)
\* a set of required names that leaves BASE_URL out
requiredInProduction_NoBaseUrl ==
    {"SESSION_SECRET", "REDIS_URL", "ENTRA_TENANT_ID", "ENTRA_CLIENT_ID",
     "ENTRA_CLIENT_SECRET", "ENTRA_ALLOWED_GROUP_ID"}

requiredInProduction ==
    {"SESSION_SECRET", "REDIS_URL", "ENTRA_TENANT_ID", "ENTRA_CLIENT_ID",
     "ENTRA_CLIENT_SECRET", "ENTRA_ALLOWED_GROUP_ID", "BASE_URL"}

requiredAlways == {}

\* parseInt(value, 10) of the port texts in use; 0 stands for NaN (falsy too)
ParseInt(value) == IF value = "8080" THEN 8080 ELSE 0

parseBool(value, defaultValue) ==
    IF value = Undefined \/ value = "" THEN defaultValue
    ELSE value = "true" \/ value = "1"

\* (value || 'lax').toLowerCase(), kept when it is one of the three
parseSameSite(value) ==
    LET lower == CASE Or(value, "lax") = "Strict" -> "strict"
                   [] OTHER -> Or(value, "lax")
    IN  IF lower \in {"lax", "strict", "none"} THEN lower ELSE "lax"

loadConfig(env) ==
    LET nodeEnv == Or(env.NODE_ENV, "development")
        isProduction == nodeEnv = "production"
        missing == {key \in requiredAlways : ~Truthy(env[key])}
                   \cup (IF isProduction
                         THEN {key \in requiredInProduction : ~Truthy(env[key])}
                         ELSE {})
        port == IF ParseInt(env.PORT) # 0 THEN ParseInt(env.PORT) ELSE 3000
    IN  IF missing # {} /\ isProduction
        THEN [threw |-> TRUE, missing |-> missing]
        ELSE [threw |-> FALSE,
              config |->
                [port |-> port,
                 baseUrl |-> IF Truthy(env.BASE_URL) THEN Str(env.BASE_URL)
                             ELSE Str(<<"http://localhost:", port>>),
                 nodeEnv |-> nodeEnv,
                 isProduction |-> isProduction,
                 session |->
                   [secret |-> Or(env.SESSION_SECRET,
                                  "dev-session-secret-change-in-production"),
                    cookieSecure |-> parseBool(env.SESSION_COOKIE_SECURE, isProduction),
                    cookieSameSite |-> parseSameSite(env.SESSION_COOKIE_SAMESITE),
                    redisUrl |-> IF Truthy(env.REDIS_URL) THEN Str(env.REDIS_URL)
                                 ELSE Null],
                 entra |->
                   [tenantId |-> Or(env.ENTRA_TENANT_ID, ""),
                    clientId |-> Or(env.ENTRA_CLIENT_ID, ""),
                    clientSecret |-> Or(env.ENTRA_CLIENT_SECRET, ""),
                    redirectPath |-> Or(env.ENTRA_REDIRECT_PATH, "/auth/callback"),
                    postLogoutRedirectPath |->
                        Or(env.ENTRA_POST_LOGOUT_REDIRECT_PATH, "/"),
                    allowedGroupId |-> Or(env.ENTRA_ALLOWED_GROUP_ID, "")],
                 n8n |->
                   [webhookUrl |-> Or(env.N8N_WEBHOOK_URL, ""),
                    webhookUrlTest |-> Or(env.N8N_WEBHOOK_URL_TEST, ""),
                    username |-> Or(env.N8N_USERNAME, ""),
                    password |-> Or(env.N8N_PASSWORD, "")],
                 legacy |->
                   [enablePasswordLogin |->
                        parseBool(env.ENABLE_LEGACY_PASSWORD_LOGIN, FALSE),
                    jwtSecret |-> Or(env.JWT_SECRET, "change_this_in_prod")]]]

\* the call of loadConfig, made once when the module is loaded
LoadConfig(env) ==
    /\ call = NoCall
    /\ call' = [fn |-> "loadConfig", env |-> env, result |-> loadConfig(env)]
    /\ UNCHANGED <<config, redisClient, redisStore, oidcClient, discoverCalls,
                   clientsCreated, store, issued, nextRand, now, ticks, req, response,
                   aborted>>

(***************************************************************************)
(* SpecConfig: loadConfig under every setting of the mode and of the seven *)
(* variables required in production (unset, empty or set).                 *)
(***************************************************************************)
EnvValues == {Undefined, "", "set"}

Environments ==
    [NODE_ENV : {Undefined, "", "production", "development", "test"},
     SESSION_SECRET : EnvValues, REDIS_URL : EnvValues, ENTRA_TENANT_ID : EnvValues,
     ENTRA_CLIENT_ID : EnvValues, ENTRA_CLIENT_SECRET : EnvValues,
     ENTRA_ALLOWED_GROUP_ID : EnvValues, BASE_URL : EnvValues,
     PORT : {Undefined, "8080"},
     SESSION_COOKIE_SECURE : {Undefined}, SESSION_COOKIE_SAMESITE : {Undefined, "Strict"},
     ENTRA_REDIRECT_PATH : {Undefined}, ENTRA_POST_LOGOUT_REDIRECT_PATH : {Undefined},
     N8N_WEBHOOK_URL : {Undefined}, N8N_WEBHOOK_URL_TEST : {Undefined},
     N8N_USERNAME : {Undefined}, N8N_PASSWORD : {Undefined},
     ENABLE_LEGACY_PASSWORD_LOGIN : {Undefined}, JWT_SECRET : {Undefined}]

InitConfig == Start({c \in GroupConfigs : c.allowedGroupId = "g1"}, FALSE)

NextConfig == call = NoCall /\ \E env \in Environments : LoadConfig(env)

SpecConfig == InitConfig /\ [][NextConfig]_vars

(***************************************************************************)
(* SpecReturnTo: validateReturnTo on every short string over the           *)
(* characters it distinguishes, and on some longer URLs of the base        *)
(* origin.                                                                 *)
(***************************************************************************)
MaxReturnTo == 4

ReturnToChars == {"B", "E", "/", ".", "?", "e"}

ReturnToStrings ==
    UNION {[1..n -> ReturnToChars] : n \in 0..MaxReturnTo}
        \cup {<<"B", "/", "e", "/", ".", ".", "/", "c">>,
              <<"B", "/", ".", ".", "e">>,
              <<"E", "/", ".", ".", "/", "e">>,
              <<"B", "/", "e", "?", "e", "#", "c">>,
              <<"E", "/", "e", "?", "e", "#", "c">>,
              <<" ", "B", "/", "e", " ">>,
              <<" ", "/", "/", "e">>,
              <<"/", "e", "/", ".", ".", "/", "c">>}

\* a call of validateReturnTo with the configured base URL
Validate(returnTo) ==
    /\ call' = [fn |-> "validateReturnTo", returnTo |-> returnTo,
                result |-> validateReturnTo(Str(returnTo), config.baseUrl)]
    /\ UNCHANGED <<config, redisClient, redisStore, oidcClient, discoverCalls,
                   clientsCreated, store, issued, nextRand, now, ticks, req, response,
                   aborted>>

InitReturnTo == Start({c \in GroupConfigs : c.allowedGroupId = "g1"}, FALSE)

\* the function has no state: one call from the initial state shows it
NextReturnTo == call = NoCall /\ \E returnTo \in ReturnToStrings : Validate(returnTo)

SpecReturnTo == InitReturnTo /\ [][NextReturnTo]_vars

(***************************************************************************)
(* SpecJourney: one login with these returnTo values and its callback, and *)
(* then the requests of the session it leaves.                             *)
(***************************************************************************)
JourneyConfigs ==
    [tenantId : {"tid"}, clientId : {"cid"}, clientSecret : {"sec"},
     allowedGroupId : {"g1"}, baseUrl : {"B"},
     isProduction : {TRUE}, redisUrl : {"R"},
     webhookUrl : {"W"}, webhookUrlTest : {""},
     username : {"nu"}, password : {"np"}, enablePasswordLogin : {FALSE}]

\* returnTo as the login request carries it: none, the chat page, a path with
\* repeated slashes, and URLs of the base origin and of another origin
JourneyReturnTos ==
    {UndefinedVal, Str(ChatHtml), Str(<<"/", "e", "/", "/", "c">>),
     Str(<<"B", "/", "e", "?", "e">>), Str(<<"B", "/", "/", "e">>),
     Str(<<"B", "/", "e", "/", "/", "c">>), Str(<<"B", "/", ".", ".", "e">>),
     Str(<<"E", "/", "e">>)}

InitJourney == Start(JourneyConfigs, FALSE)

NextJourney ==
    \/ /\ \E c \in Cookies, rt \in JourneyReturnTos : LoginRequest(1, c, rt)
       /\ nextRand' <= OpsLogins + 1
    \/ \E c \in Cookies, s \in OpsStates : CallbackRequest(1, c, Undefined, s)
    \/ \E ok \in BOOLEAN : DiscoverDone(1, ok) /\ nextRand' <= OpsLogins + 1
    \/ \E ok \in BOOLEAN, ts \in GuardTokenSets, n \in OpsStates :
          ExchangeDone(1, ok, ts, n)
    \/ \E d \in BOOLEAN : RegenerateDone(1, d)
    \/ \E d \in {TRANSACTION_TTL, TRANSACTION_TTL + 1} : Tick(d)
    \/ \E c \in Cookies, url \in {ChatHtml, ChatHtml \o <<"/">>} :
          ChatRequest(c, url, UndefinedVal, FALSE)
    \/ \E q \in ProxyQueries, c \in Cookies, up \in BOOLEAN :
          ProxyRequest(1, "webhook", q, c, "none", up)
    \/ \E u \in Upstreams : FetchDone(1, u)
    \/ \E c \in Cookies, b \in Bodies, up \in BOOLEAN : StatusRequest(c, b, up)

SpecJourney == InitJourney /\ [][NextJourney]_vars

(***************************************************************************)
(* SpecLogout: one login at most, with every outcome of the provider's     *)
(* calls and of the store's destroy, and the logout requests.              *)
(***************************************************************************)
InitLogout == Start(JourneyConfigs, FALSE)

NextLogout ==
    \/ OneLogin(BOOLEAN, OpsStates)
    \/ \E c \in Cookies : LogoutRequest(1, c)
    \/ \E d \in BOOLEAN : DestroyDone(1, d)

SpecLogout == InitLogout /\ [][NextLogout]_vars

(***************************************************************************)
(* SpecRelogin: up to MaxLogins logins, also on a session whose            *)
(* transaction is pending, with every outcome of the provider's discovery  *)
(* and token exchange, the callbacks with every state value, and time.     *)
(***************************************************************************)
ReloginReturnTos == {UndefinedVal, Str(<<"/", "e">>)}

InitRelogin == Start(JourneyConfigs, FALSE)

NextRelogin ==
    \/ \E c \in Cookies, rt \in ReloginReturnTos : LoginRequest(1, c, rt)
    \/ \E c \in Cookies, s \in States : CallbackRequest(1, c, Undefined, s)
    \/ \E ok \in BOOLEAN : DiscoverDone(1, ok)
    \/ \E ok \in BOOLEAN, ts \in GuardTokenSets, n \in States : ExchangeDone(1, ok, ts, n)
    \/ \E d \in BOOLEAN : RegenerateDone(1, d)
    \/ \E d \in {TRANSACTION_TTL, TRANSACTION_TTL + 1} : Tick(d)

SpecRelogin == InitRelogin /\ [][NextRelogin]_vars

(***************************************************************************)
(* The Redis client's reconnectStrategy, and SpecReconnect: the strategy   *)
(* on every retry count up to MaxRetries.                                  *)
(***************************************************************************)
MaxRetries == 120

\* Math.min
Min(a, b) == IF a <= b THEN a ELSE b

\* a strategy that gives up one retry early
reconnectStrategy_GivesUpEarly(retries) ==
    IF retries >= 10
    THEN [error |-> "Redis max reconnection attempts reached"]
    ELSE [delay |-> Min(retries * 100, 3000)]

\* the strategy answers with an Error (the client stops reconnecting) or with
\* the delay in milliseconds before the next attempt
reconnectStrategy(retries) ==
    IF retries > 10
    THEN [error |-> "Redis max reconnection attempts reached"]
    ELSE [delay |-> Min(retries * 100, 3000)]

\* the client, disconnected, asks the strategy
Reconnect(retries) ==
    /\ call = NoCall
    /\ config.redisUrl # ""
    /\ call' = [fn |-> "reconnectStrategy", retries |-> retries,
                result |-> reconnectStrategy(retries)]
    /\ UNCHANGED <<config, redisClient, redisStore, oidcClient, discoverCalls,
                   clientsCreated, store, issued, nextRand, now, ticks, req, response,
                   aborted>>

InitReconnect == Start(JourneyConfigs, FALSE)

NextReconnect == call = NoCall /\ \E retries \in 0..MaxRetries : Reconnect(retries)

SpecReconnect == InitReconnect /\ [][NextReconnect]_vars

(***************************************************************************)
(* The routes that initializeApp registers, the legacy password login, and *)
(* the requests that match no route.                                       *)
(***************************************************************************)
AuthPaths == {"/auth/login", "/auth/callback", "/auth/logout", "/auth/status"}
LegacyPaths == {"/login", "/logout"}
Methods == {"GET", "POST"}

\* the routes of the process: method and path
Routes ==
    {[method |-> "GET", path |-> "/healthz"], [method |-> "GET", path |-> "/readyz"]}
    \cup (IF OidcConfigured
          THEN {[method |-> "GET", path |-> p] : p \in AuthPaths}
          ELSE {})
    \cup (IF config.enablePasswordLogin
          THEN {[method |-> "POST", path |-> p] : p \in LegacyPaths}
          ELSE {})
    \cup {[method |-> "GET", path |-> "/"], [method |-> "GET", path |-> "/chat.html"]}
    \cup {[method |-> m, path |-> p] : m \in Methods,
                                       p \in {"/proxy/webhook", "/proxy/webhook-test"}}

\* the answer of Express to a request that no route and no file matches
NotFound == [status |-> 404, body |-> [error |-> "Not Found"]]

\* a request for one of the /auth or legacy paths that matches no route: it
\* passes the middleware and falls through to the 404
NoRouteRequest(method, path, cookie, body, up) ==
    /\ [method |-> method, path |-> path] \notin Routes
    /\ CanLoad(cookie)
    /\ cookie = 0 => up
    /\ LET m == Middleware(cookie, body, up)
       IN  Answer([kind |-> "noroute", method |-> method, path |-> path,
                   cookie |-> cookie, reqBody |-> body, up |-> up, passed |-> m.ok,
                   before |-> IF m.ok THEN m.session ELSE Null]
                  @@ (IF ~m.ok THEN InternalError ELSE NotFound))

\* the credentials a legacy login posts: those of the configuration, others,
\* or none
Credentials == {"right", "wrong", "none"}

\* jwt.sign({ sub: username }, jwtSecret, { expiresIn: '2h' }) in the cookie
\* named session
LegacyCookie(https) ==
    [name |-> "session", token |-> [sub |-> config.username, expiresIn |-> "2h"],
     httpOnly |-> TRUE, secure |-> (config.isProduction \/ https),
     sameSite |-> "lax", maxAge |-> 2 * 60 * 60 * 1000]

\* POST /login of the legacy password login
LegacyLoginRequest(cookie, credentials, body, https, up) ==
    /\ [method |-> "POST", path |-> "/login"] \in Routes
    /\ CanLoad(cookie)
    /\ cookie = 0 => up
    /\ credentials # "none" => body = "json"
    /\ LET m == Middleware(cookie, body, up)
       IN  Answer([kind |-> "legacyLogin", cookie |-> cookie, reqBody |-> body,
                   credentials |-> credentials, up |-> up, passed |-> m.ok,
                   before |-> IF m.ok THEN m.session ELSE Null]
                  @@ (IF ~m.ok THEN InternalError @@ [setCookie |-> Null]
                      ELSE IF credentials = "right"
                      THEN [status |-> 200, body |-> [ok |-> TRUE],
                            setCookie |-> LegacyCookie(https)]
                      ELSE [status |-> 401,
                            body |-> [ok |-> FALSE, error |-> "Invalid credentials"],
                            setCookie |-> Null]))

\* POST /logout of the legacy password login: the cookie is cleared
LegacyLogoutRequest(cookie, body, up) ==
    /\ [method |-> "POST", path |-> "/logout"] \in Routes
    /\ CanLoad(cookie)
    /\ cookie = 0 => up
    /\ LET m == Middleware(cookie, body, up)
       IN  Answer([kind |-> "legacyLogout", cookie |-> cookie, reqBody |-> body,
                   up |-> up, passed |-> m.ok,
                   before |-> IF m.ok THEN m.session ELSE Null]
                  @@ (IF ~m.ok THEN InternalError @@ [cleared |-> FALSE]
                      ELSE [status |-> 200, body |-> [ok |-> TRUE], cleared |-> TRUE]))

(***************************************************************************)
(* SpecRoutes: the process with and without the tenant and the client id,  *)
(* with and without the legacy login: one login at most, the chat page,    *)
(* the status, the proxy, the legacy login, and the requests for paths     *)
(* whose routes may be missing.                                            *)
(***************************************************************************)
RoutesConfigs ==
    [tenantId : {"", "tid"}, clientId : {"", "cid"}, clientSecret : {"sec"},
     allowedGroupId : {"g1"}, baseUrl : {"B"},
     isProduction : {FALSE}, redisUrl : {"R"},
     webhookUrl : {"W"}, webhookUrlTest : {""},
     username : {"nu"}, password : {"np"}, enablePasswordLogin : BOOLEAN]

RoutesQueries == {q \in ProxyQueries : q.body # "malformed"}

InitRoutes == Start(RoutesConfigs, FALSE)

NextRoutes ==
    \/ OneLogin({TRUE}, {1})
    \/ \E c \in Cookies : ChatRequest(c, ChatHtml, UndefinedVal, FALSE)
    \/ \E c \in Cookies, up \in BOOLEAN : StatusRequest(c, "none", up)
    \/ \E route \in ProxyRoutes, q \in RoutesQueries, c \in Cookies, jwt \in Jwts,
          up \in BOOLEAN : ProxyRequest(1, route, q, c, jwt, up)
    \/ \E u \in Upstreams : FetchDone(1, u)
    \/ \E m \in Methods, p \in AuthPaths \cup LegacyPaths, c \in Cookies,
          up \in BOOLEAN : NoRouteRequest(m, p, c, "none", up)
    \/ \E c \in Cookies, cr \in Credentials, b \in Bodies, https \in BOOLEAN,
          up \in BOOLEAN : LegacyLoginRequest(c, cr, b, https, up)
    \/ \E c \in Cookies, up \in BOOLEAN : LegacyLogoutRequest(c, "none", up)

SpecRoutes == InitRoutes /\ [][NextRoutes]_vars

(***************************************************************************)
(* SpecCallback: one login and the callbacks with every query: the error   *)
(* parameter absent, empty or set, the state right or wrong, the code      *)
(* there or not, before and after the transaction's expiry.                *)
(***************************************************************************)
CallbackQueries ==
    [error : {Undefined, "", "access_denied"}, state : OpsStates,
     code : {Undefined, "code"}]

InitCallback == Start(JourneyConfigs, FALSE)

NextCallback ==
    \/ /\ \E c \in Cookies : LoginRequest(1, c, UndefinedVal)
       /\ nextRand' <= OpsLogins + 1
    \/ \E c \in Cookies, q \in CallbackQueries : Callback(1, c, q)
    \/ \E ok \in BOOLEAN : DiscoverDone(1, ok) /\ nextRand' <= OpsLogins + 1
    \/ \E ok \in BOOLEAN, ts \in GuardTokenSets, n \in OpsStates :
          ExchangeDone(1, ok, ts, n)
    \/ \E d \in BOOLEAN : RegenerateDone(1, d)
    \/ \E d \in {TRANSACTION_TTL, TRANSACTION_TTL + 1} : Tick(d)

SpecCallback == InitCallback /\ [][NextCallback]_vars

(***************************************************************************)
(* GET /: the landing page, or the chat page for an authorized user.       *)
(***************************************************************************)
RootRequest(cookie, body, up) ==
    /\ CanLoad(cookie)
    /\ cookie = 0 => up
    /\ LET m == Middleware(cookie, body, up)
       IN  Answer([kind |-> "root", cookie |-> cookie, reqBody |-> body, up |-> up,
                   passed |-> m.ok, before |-> IF m.ok THEN m.session ELSE Null]
                  @@ (IF ~m.ok THEN InternalError @@ [location |-> Null]
                      ELSE IF m.session.user # Null /\ m.session.user.authorized = TRUE
                      THEN [status |-> 302, body |-> Null, location |-> ChatHtml]
                      ELSE [status |-> 200, body |-> [file |-> "index.html"],
                            location |-> Null]))

(***************************************************************************)
(* SpecFrame: the logins, callbacks and logouts one request at a time,     *)
(* session expiry, and the requests that only read the session: the chat   *)
(* page, the status, the root and the proxy.                               *)
(***************************************************************************)
FrameQueries == {q \in ProxyQueries : q.method = "POST"}

InitFrame == Start(JourneyConfigs, FALSE)

NextFrame ==
    \/ Flow({1}, {UndefinedVal}, {Undefined}, GuardTokenSets)
    \/ \E sid \in Sids : Expire(sid)
    \/ \E c \in Cookies : ChatRequest(c, ChatHtml \o <<"/">>, UndefinedVal, FALSE)
    \/ \E c \in Cookies, up \in BOOLEAN : StatusRequest(c, "none", up)
    \/ \E c \in Cookies, up \in BOOLEAN : RootRequest(c, "none", up)
    \/ \E q \in FrameQueries, c \in Cookies, up \in BOOLEAN :
          ProxyRequest(1, "webhook", q, c, "none", up)
    \/ \E u \in Upstreams : FetchDone(1, u)

SpecFrame == InitFrame /\ [][NextFrame]_vars

(***************************************************************************)
(* Properties.                                                             *)
(***************************************************************************)
\* what the claims carried by a token set must yield, stated from the
\* decision table of the authorization evaluator
EvaluatorReturnsBoolean(claims) ==
    config.allowedGroupId = "" \/ claims.groups.t = "array"

ExpectedAuthorized(claims) ==
    \/ config.allowedGroupId = ""
    \/ /\ claims.groups.t = "array"
       /\ \E i \in DOMAIN claims.groups.v : claims.groups.v[i] = config.allowedGroupId

ExpectedEmail(claims) ==
    IF Truthy(claims.email) THEN claims.email
    ELSE IF Truthy(claims.preferred_username) THEN claims.preferred_username
    ELSE claims.upn

IsCallback == response.kind = "callback"
SuccessfulCallback == IsCallback /\ response.status = 302
HadTransaction == response.before.oidcTransaction # Null

\* C1: after every successful callback the session identifier differs from the
\* one before the callback, and the session stored under the new identifier
\* carries the user record {sub, email, name, authorized, idToken} computed
\* from that callback's claims.
C1_CallbackRegeneratesSession ==
    SuccessfulCallback =>
        LET c == response.tokenSet.claims
        IN  /\ response.sidAfter # response.sidBefore
            /\ store[response.sidAfter] # Null
            /\ store[response.sidAfter].user =
                  [sub |-> c.sub, email |-> ExpectedEmail(c), name |-> c.name,
                   authorized |-> ExpectedAuthorized(c),
                   idToken |-> response.tokenSet.id_token]

C1_Witness ==
    /\ SuccessfulCallback
    /\ HadTransaction
    /\ response.sidBefore \in issued
    /\ store[response.sidAfter].user.sub = "u2"

\* C2: whatever the interleaving of the first requests that call
\* getOidcClient, at most one provider discovery is under way at a time and
\* at most one client instance is ever created.
C2_SingleInitialization ==
    /\ Cardinality({r \in Reqs : req[r].pc = "discover"}) <= 1
    /\ clientsCreated <= 1

\* C3: whenever a callback finishes on a session that had a pending
\* oidcTransaction, with success or with any failure, the session no longer
\* holds an oidcTransaction.
C3_CallbackClearsTransaction ==
    (IsCallback /\ HadTransaction) =>
        /\ response.after.oidcTransaction = Null
        /\ store[response.sidBefore] # Null =>
              store[response.sidBefore].oidcTransaction = Null

\* a callback reached handleCallback's checks of the transaction: it carried
\* no provider error and getOidcClient returned the client
ReachedChecks == IsCallback /\ response.checkedAt # -1

ExpiredAt(t) == t - response.before.oidcTransaction.createdAt > TRANSACTION_TTL

FailedWith(error) ==
    /\ response.status = 400
    /\ response.error = error
    /\ ~response.exchanged
    /\ response.after.user = response.before.user
    /\ response.after.oidcTransaction = Null
    /\ store[response.sidAfter] = response.after

\* C4: a callback on a session whose pending transaction is older than 5
\* minutes fails with the expired-transaction error whatever state it carries,
\* makes no token exchange, writes no user and leaves the session with no
\* oidcTransaction.
C4_ExpiredCallbackFails ==
    (IsCallback /\ HadTransaction /\ ExpiredAt(response.arrivedAt)) =>
        FailedWith("TransactionExpired")

\* What does hold of an expired transaction: a callback that carries no
\* provider error parameter and gets the provider client, on a session whose
\* pending transaction is older than 5 minutes when handleCallback checks it,
\* fails with the expired-transaction error whatever state it carries, makes
\* no token exchange, writes no user and leaves no oidcTransaction.
ExpiredTransactionFails ==
    (ReachedChecks /\ HadTransaction /\ ExpiredAt(response.checkedAt)) =>
        FailedWith("TransactionExpired")

\* C5: a callback on a session with a pending, unexpired transaction whose
\* state parameter differs from the stored state fails with the state-mismatch
\* error, makes no token exchange, writes no user and leaves the session with
\* no oidcTransaction.
C5_MismatchedCallbackFails ==
    (/\ IsCallback
     /\ HadTransaction
     /\ ~ExpiredAt(response.arrivedAt)
     /\ response.query.state # response.before.oidcTransaction.state) =>
        FailedWith("StateMismatch")

\* What does hold of a state mismatch: a callback that carries no provider
\* error parameter and gets the provider client, on a session with a pending
\* transaction that is unexpired when handleCallback checks it, and whose
\* state parameter differs from the stored state, fails with the
\* state-mismatch error, makes no token exchange, writes no user and leaves
\* no oidcTransaction.
StateMismatchFails ==
    (/\ ReachedChecks
     /\ HadTransaction
     /\ ~ExpiredAt(response.checkedAt)
     /\ response.query.state # response.before.oidcTransaction.state) =>
        FailedWith("StateMismatch")

\* C6: a callback succeeds only on a session whose login attempt no earlier
\* callback has aborted (with NoTransaction, TransactionExpired, StateMismatch
\* or NonceMismatch) since the last login on that session.
C6_NoSuccessAfterAbort ==
    SuccessfulCallback => ~response.abortedBefore

\* the callback whose response is resp wrote this user on session sid, having
\* passed every check
WrittenByCallback(resp, sid, user) ==
    /\ resp.kind = "callback"
    /\ resp.sidAfter = sid
    /\ resp.before.oidcTransaction # Null
    /\ resp.checkedAt # -1
    /\ resp.checkedAt - resp.before.oidcTransaction.createdAt <= TRANSACTION_TTL
    /\ resp.query.state = resp.before.oidcTransaction.state
    /\ resp.exchanged
    /\ resp.tokenSet # Null
    /\ resp.tokenSet.claims.nonce = resp.before.oidcTransaction.nonce
    /\ EvaluatorReturnsBoolean(resp.tokenSet.claims)
    /\ user.authorized = ExpectedAuthorized(resp.tokenSet.claims)

\* a request in flight saves session sid back with the user it had loaded
\* from it
SavedBack(sid, user) ==
    \E r \in InFlight : req[r].origSid = sid /\ req[r].orig.user = user

\* C7: a stored session comes to carry a user record, or another user record,
\* only by a callback in which a transaction was present and unexpired, the
\* state equalled the stored state, the token exchange succeeded, the ID
\* token's nonce equalled the stored nonce and the authorization evaluator
\* returned a boolean, user.authorized being that boolean; or by a request
\* that saves the session back with the user record it had loaded from it.
C7_UserOnlyFromValidCallback ==
    [][\A sid \in Sids :
          (/\ store'[sid] # Null
           /\ store'[sid].user # Null
           /\ (store[sid] = Null \/ store[sid].user # store'[sid].user)) =>
              \/ WrittenByCallback(response', sid, store'[sid].user)
              \/ SavedBack(sid, store'[sid].user)]_vars

C7_Witness ==
    /\ SuccessfulCallback
    /\ store[response.sidAfter].user.authorized = FALSE
    /\ config.allowedGroupId # ""

Evaluated == call.fn = "checkGroupMembership"
HasList(claims) == claims.groups.t = "array"
HasOverage(claims) == claims.claim_names.t = "object" /\ Truthy(claims.claim_names.groups)
Member(claims) == \E i \in DOMAIN claims.groups.v : claims.groups.v[i] = config.allowedGroupId

\* C8: the evaluator's outcome is that of the decision table, in its order: no
\* group configured -> true; claims.groups a list -> whether the configured
\* group is an element of it; overage indicator -> GroupOverage; otherwise ->
\* GroupClaimMissing.
C8_EvaluatorDecisionTable ==
    Evaluated =>
        LET c == call.claims
            none == config.allowedGroupId = ""
        IN  /\ none => call.result = [ok |-> TRUE, value |-> TRUE]
            /\ (~none /\ HasList(c)) => call.result = [ok |-> TRUE, value |-> Member(c)]
            /\ (~none /\ ~HasList(c) /\ HasOverage(c)) =>
                  call.result = [ok |-> FALSE, error |-> "GroupOverage"]
            /\ (~none /\ ~HasList(c) /\ ~HasOverage(c)) =>
                  call.result = [ok |-> FALSE, error |-> "GroupClaimMissing"]

C8_Witness ==
    /\ Evaluated
    /\ config.allowedGroupId = "g2"
    /\ HasList(call.claims)
    /\ HasOverage(call.claims)
    /\ Len(call.claims.groups.v) = 2
    /\ call.result = [ok |-> TRUE, value |-> TRUE]

IsChat == response.kind = "chat"
ApiStyle ==
    \/ response.xhr
    \/ response.accept.t = "string" /\ Includes(response.accept.v, <<"J">>)

\* C9: when requireAuth runs, the request goes on to the rest of the route
\* exactly when the session carries a user; when it does not, the route
\* handler does not run, an API-style request gets 401 {error: 'Not
\* authenticated'} and any other request a redirect to /auth/login whose
\* returnTo parameter, as the login route will read it, is the request URL.
C9_RequireAuth ==
    (IsChat /\ response.ranAuth) =>
        /\ (response.by # "requireAuth") <=> (response.before.user # Null)
        /\ response.before.user = Null =>
              /\ ~response.handler
              /\ IF ApiStyle
                 THEN /\ response.status = 401
                      /\ response.body = [error |-> "Not authenticated"]
                 ELSE /\ response.status = 302
                      /\ response.location.path = "/auth/login"
                      /\ QueryReturnTo(response.location.search) = response.url

C9_Witness ==
    /\ IsChat
    /\ response.ranAuth
    /\ response.before.user = Null
    /\ ~ApiStyle
    /\ response.status = 302
    /\ Includes(response.url, <<"&">>)

\* C10: with OIDC configured, the chat page is sent only to a request whose
\* session carries a user with authorized = true.
C10_ChatPageOnlyAuthorized ==
    (IsChat /\ OidcConfigured /\ response.body = [file |-> "chat.html"]) =>
        /\ response.before.user # Null
        /\ response.before.user.authorized = TRUE

\* What does hold of the chat page: with OIDC configured, the handler of the
\* /chat.html route runs only for a session whose user has authorized = true.
ChatHandlerOnlyAuthorized ==
    (IsChat /\ OidcConfigured /\ response.handler) =>
        /\ response.before.user # Null
        /\ response.before.user.authorized = TRUE

\* C11: when requireGroup denies a request of an authenticated but
\* unauthorized user, the 403 response is the JSON error for an API-style
\* caller and the HTML page for any other caller.
C11_DeniedResponseByCallerType ==
    (IsChat /\ response.by = "requireGroup" /\ response.before.user # Null) =>
        /\ response.status = 403
        /\ response.body = IF ApiStyle
                           THEN [error |-> "Access denied. Not in allowed group."]
                           ELSE [html |-> "Access Denied"]

(***************************************************************************)
(* The proxy routes                                                        *)
(***************************************************************************)
IsProxy == response.kind = "proxy"

\* the session the request's cookie names carries a user with authorized = true
HoldsAuthorizedUser ==
    /\ response.cookie # 0
    /\ store[response.cookie] # Null
    /\ store[response.cookie].user # Null
    /\ store[response.cookie].user.authorized = TRUE

\* the request holds a legacy JWT that verifies, and the legacy login is enabled
HoldsValidJwt == config.enablePasswordLogin /\ response.jwt = "valid"

Unauthenticated == IsProxy /\ ~HoldsAuthorizedUser /\ ~HoldsValidJwt

NotAuthenticated401 ==
    /\ response.status = 401
    /\ response.body = [error |-> "Not authenticated"]
    /\ response.sent = <<>>

\* C12 as stated: every proxy request, of any method, whose session carries no
\* user with authorized = true and which holds no valid legacy JWT while the
\* legacy login is enabled, is answered 401 {error: 'Not authenticated'}, and
\* nothing is sent to the downstream webhook.
C12_UnauthenticatedGets401 ==
    Unauthenticated => NotAuthenticated401

\* C12, amended: such a request is answered 401 {error: 'Not authenticated'}
\* when its body passes express.json and the session middleware gets its
\* session from the store; whatever the answer, nothing is sent downstream.
C12_UnauthenticatedReachingGuardGets401 ==
    Unauthenticated =>
        /\ response.sent = <<>>
        /\ response.passed => NotAuthenticated401

\* an unauthorized user's POST with a JWT that verifies, the legacy login
\* disabled, is answered 401
C12_Witness ==
    /\ Unauthenticated
    /\ response.passed
    /\ response.query.method = "POST"
    /\ response.jwt = "valid"
    /\ response.before.user # Null
    /\ response.status = 401

Authenticated == IsProxy /\ (HoldsAuthorizedUser \/ HoldsValidJwt)

\* the route's downstream target is not configured
TargetUnset ==
    IF response.route = "webhook"
    THEN config.webhookUrl = ""
    ELSE config.webhookUrlTest = "" /\ config.webhookUrl = ""

NotConfigured500 ==
    /\ response.status = 500
    /\ response.body = [error |-> "N8N webhook URL not configured"]

\* what C13 says of authenticated requests: with the target unset the answer
\* is 500 and nothing is sent; the "not configured" answer is given only when
\* the target is unset (for webhook-test: the test URL and the webhook URL)
UnconfiguredTarget500 ==
    /\ (Authenticated /\ TargetUnset) => (response.status = 500 /\ response.sent = <<>>)
    /\ (IsProxy /\ response.body = [error |-> "N8N webhook URL not configured"]) =>
           (TargetUnset /\ response.status = 500)

\* C13 as stated: an authenticated proxy request whose target is unconfigured
\* gets 500 and makes no upstream call (webhook: the webhook URL; webhook-test:
\* the test URL, else the webhook URL); an unauthenticated request gets 401,
\* not 500, even when the target is unconfigured.
C13_UnconfiguredTarget ==
    /\ UnconfiguredTarget500
    /\ (Unauthenticated /\ TargetUnset) => response.status = 401

\* C13, amended: the same, the unauthenticated request getting 401 when it
\* passes express.json and the session middleware.
C13_UnconfiguredTargetReachingGuard ==
    /\ UnconfiguredTarget500
    /\ (Unauthenticated /\ TargetUnset /\ response.passed) => response.status = 401

\* an authorized user's request to webhook-test with neither URL configured
C13_Witness ==
    /\ Authenticated
    /\ HoldsAuthorizedUser
    /\ response.passed
    /\ response.route = "webhook-test"
    /\ TargetUnset
    /\ NotConfigured500
    /\ response.sent = <<>>

\* webhook-test falls back to the webhook URL: with the test URL unset and the
\* webhook URL set, the request goes to the webhook URL
FallsBackToWebhookUrl ==
    /\ IsProxy
    /\ response.route = "webhook-test"
    /\ config.webhookUrlTest = ""
    /\ Len(response.sent) = 1
    /\ response.sent[1].url = "W"

\* the downstream call of the request failed, or the reading of its body
UpstreamFailed ==
    IsProxy /\ response.upstream # Null /\ response.upstream.outcome # "response"

\* C14: a proxy request causes at most one call to the downstream webhook, and
\* when the call or the reading of its body fails the caller gets 500
\* {error: 'Proxy error'} with no second attempt.
C14_SingleAttempt ==
    /\ \A r \in Reqs : req[r].pc = "fetch" => Len(req[r].seen.sent) = 1
    /\ IsProxy => Len(response.sent) <= 1
    /\ UpstreamFailed =>
           /\ response.status = 500
           /\ response.body = [error |-> "Proxy error"]
           /\ Len(response.sent) = 1

\* the reading of the downstream's body fails after the one call
C14_Witness ==
    /\ UpstreamFailed
    /\ response.upstream.outcome = "text rejects"
    /\ response.status = 500
    /\ Len(response.sent) = 1

\* the downstream answered and its body was read
UpstreamAnswered ==
    IsProxy /\ response.upstream # Null /\ response.upstream.outcome = "response"

Conditional ==
    /\ response.query.method \in {"GET", "HEAD"}
    /\ response.query.ifNoneMatch # Undefined

AsCallerWithConfiguredCredentials(d, q) ==
    /\ d.method = q.method
    /\ d.headers.authorization = <<"Basic", "base64", config.username, ":", config.password>>
    /\ (d.body # UndefinedVal) <=> (q.method \notin {"GET", "HEAD"})

\* C16: the request sent downstream uses the caller's method, carries the
\* Basic authorization built from the configured username and password and
\* never the caller's credential, and has a body exactly when the method is
\* neither GET nor HEAD.
C16_DownstreamRequest ==
    /\ \A r \in Reqs : req[r].pc = "fetch" =>
           \A i \in 1..Len(req[r].seen.sent) :
               AsCallerWithConfiguredCredentials(req[r].seen.sent[i], req[r].seen.query)
    /\ IsProxy =>
           \A i \in 1..Len(response.sent) :
               AsCallerWithConfiguredCredentials(response.sent[i], response.query)

\* a POST that carries the caller's own Authorization header was sent on
\* with a body and the configured credentials
C16_Witness ==
    /\ IsProxy
    /\ response.query.method = "POST"
    /\ response.query.authorization = <<"Bearer", "caller">>
    /\ Len(response.sent) = 1
    /\ response.sent[1].body # UndefinedVal
    /\ response.sent[1].headers.authorization # response.query.authorization

\* a GET and a HEAD were sent on without a body
BodilessRequestSent ==
    /\ IsProxy
    /\ response.query.method = "HEAD"
    /\ Len(response.sent) = 1
    /\ response.sent[1].body = UndefinedVal

(***************************************************************************)
(* Health and readiness                                                    *)
(***************************************************************************)
IsHealthz == response.kind = "healthz"
IsReadyz == response.kind = "readyz"

\* C17: GET /healthz returns 200 in every reachable state, whether the session
\* store is healthy, failing or unconfigured, and whether or not the request
\* carries a session cookie that the session middleware first looks up.
C17_HealthzAlways200 ==
    IsHealthz => response.status = 200

\* What does hold of /healthz: a request without a body that the JSON parser
\* rejects, and without a session cookie or with the store answering, gets 200.
HealthzWhenMiddlewarePasses ==
    (IsHealthz /\ response.reqBody # "malformed" /\ (response.cookie = 0 \/ response.up))
        => response.status = 200

\* a health request with a session cookie while Redis does not answer
HealthzWithCookieStoreDown ==
    /\ IsHealthz
    /\ response.cookie # 0
    /\ redisStore = 1
    /\ ~response.up
    /\ response.reqBody = "none"
    /\ response.status = 500

\* the store health check as C18 states it: true when no connection string
\* is configured, otherwise true exactly when a ping on the store client
\* succeeds
StoreHealthy ==
    \/ config.redisUrl = ""
    \/ redisClient = 1 /\ response.pingOk

ReadyAnswer ==
    IF StoreHealthy
    THEN /\ response.status = 200
         /\ response.body = [status |-> "ready", redis |-> "connected"]
    ELSE /\ response.status = 503
         /\ response.body = [status |-> "not ready", redis |-> "disconnected"]

\* C18: GET /readyz returns 200 'ready' exactly when the store health check
\* is true and 503 'not ready' otherwise; the check is true when no store
\* connection string is configured, otherwise exactly when a ping on the
\* store client succeeds (also on the client left by a failed initial connect
\* outside production).
C18_ReadyzFollowsHealth ==
    IsReadyz => ReadyAnswer

\* What does hold of /readyz: it answers by the health check when the request
\* passes the JSON parser and the session middleware.
ReadyzWhenMiddlewarePasses ==
    (IsReadyz /\ response.reqBody # "malformed" /\ (response.cookie = 0 \/ response.up))
        => ReadyAnswer

\* a readiness request with a session cookie while Redis answers neither the
\* session lookup nor the ping
ReadyzWithCookieStoreDown ==
    /\ IsReadyz
    /\ response.cookie # 0
    /\ redisStore = 1
    /\ ~response.up
    /\ ~response.pingOk
    /\ response.reqBody = "none"
    /\ response.status = 500

\* the client of a failed initial connect is pinged: sessions are in memory,
\* and readiness follows the ping
ReadyzPingsFallbackClient ==
    /\ IsReadyz
    /\ redisClient = 1
    /\ redisStore = 0
    /\ ~response.pingOk
    /\ response.status = 503

(***************************************************************************)
(* Configuration                                                           *)
(***************************************************************************)
Loaded == call.fn = "loadConfig"

\* the variable is unset or empty
Missing(env, key) == env[key] = Undefined \/ env[key] = ""

\* every value the environment does not give has its default
DefaultsForMissing(env, c) ==
    /\ Missing(env, "NODE_ENV") => c.nodeEnv = "development"
    /\ Missing(env, "PORT") => c.port = 3000
    /\ Missing(env, "BASE_URL") => c.baseUrl = Str(<<"http://localhost:", c.port>>)
    /\ Missing(env, "SESSION_SECRET") =>
          c.session.secret = "dev-session-secret-change-in-production"
    /\ Missing(env, "SESSION_COOKIE_SECURE") => c.session.cookieSecure = c.isProduction
    /\ Missing(env, "SESSION_COOKIE_SAMESITE") => c.session.cookieSameSite = "lax"
    /\ Missing(env, "REDIS_URL") => c.session.redisUrl = Null
    /\ Missing(env, "ENTRA_TENANT_ID") => c.entra.tenantId = ""
    /\ Missing(env, "ENTRA_CLIENT_ID") => c.entra.clientId = ""
    /\ Missing(env, "ENTRA_CLIENT_SECRET") => c.entra.clientSecret = ""
    /\ Missing(env, "ENTRA_REDIRECT_PATH") => c.entra.redirectPath = "/auth/callback"
    /\ Missing(env, "ENTRA_POST_LOGOUT_REDIRECT_PATH") =>
          c.entra.postLogoutRedirectPath = "/"
    /\ Missing(env, "ENTRA_ALLOWED_GROUP_ID") => c.entra.allowedGroupId = ""
    /\ Missing(env, "N8N_WEBHOOK_URL") => c.n8n.webhookUrl = ""
    /\ Missing(env, "N8N_WEBHOOK_URL_TEST") => c.n8n.webhookUrlTest = ""
    /\ Missing(env, "N8N_USERNAME") => c.n8n.username = ""
    /\ Missing(env, "N8N_PASSWORD") => c.n8n.password = ""
    /\ Missing(env, "ENABLE_LEGACY_PASSWORD_LOGIN") => c.legacy.enablePasswordLogin = FALSE
    /\ Missing(env, "JWT_SECRET") => c.legacy.jwtSecret = "change_this_in_prod"

\* C19: loadConfig throws exactly when the mode is production and at least one
\* of SESSION_SECRET, REDIS_URL, ENTRA_TENANT_ID, ENTRA_CLIENT_ID,
\* ENTRA_CLIENT_SECRET, ENTRA_ALLOWED_GROUP_ID, BASE_URL is unset or empty; in
\* any other mode it never throws, and what it returns has a default for every
\* missing value.
C19_LoadConfigThrows ==
    Loaded =>
        LET env == call.env
            production == env.NODE_ENV = "production"
            lacking ==
                \E key \in {"SESSION_SECRET", "REDIS_URL", "ENTRA_TENANT_ID",
                            "ENTRA_CLIENT_ID", "ENTRA_CLIENT_SECRET",
                            "ENTRA_ALLOWED_GROUP_ID", "BASE_URL"} : Missing(env, key)
        IN  /\ call.result.threw <=> (production /\ lacking)
            /\ ~call.result.threw => DefaultsForMissing(env, call.result.config)

\* production with only BASE_URL empty: loadConfig throws
C19_Witness ==
    /\ Loaded
    /\ call.env.NODE_ENV = "production"
    /\ call.env.BASE_URL = ""
    /\ \A key \in requiredInProduction \ {"BASE_URL"} : call.env[key] = "set"
    /\ call.result.threw

\* outside production with every required variable missing: the defaults
LoadedDefaults ==
    /\ Loaded
    /\ call.env.NODE_ENV = "test"
    /\ \A key \in requiredInProduction : call.env[key] = Undefined
    /\ ~call.result.threw
    /\ call.result.config.session.redisUrl = Null

(***************************************************************************)
(* The return path                                                         *)
(***************************************************************************)
Validated == call.fn = "validateReturnTo"

\* C20: for every returnTo that contains '..' or starts with '//',
\* validateReturnTo returns '/', also when the string is an absolute URL of
\* the configured base origin.
C20_TraversalAndProtocolRelativeRejected ==
    (Validated /\ ( \/ Includes(call.returnTo, <<".", ".">>)
                    \/ StartsWith(call.returnTo, <<"/", "/">>) ))
        => call.result = Slash

\* What does hold: a returnTo that starts with '//', and one that contains
\* '..' and is not an absolute URL of the base origin, gives '/'.
RelativeTraversalRejected ==
    (Validated /\ ( \/ StartsWith(call.returnTo, <<"/", "/">>)
                    \/ /\ Includes(call.returnTo, <<".", ".">>)
                       /\ ~StartsWith(Trim(call.returnTo), <<"B">>) ))
        => call.result = Slash

\* an absolute URL of the base origin with '..' in its path comes back as the
\* path the URL parser has resolved
SameOriginTraversalResolved ==
    /\ Validated
    /\ call.returnTo = <<"B", "/", "e", "/", ".", ".", "/", "c">>
    /\ call.result = <<"/", "c">>

\* and with '..' in its query comes back with the '..'
SameOriginQueryKept ==
    /\ Validated
    /\ call.returnTo = <<"B", "?", ".", ".">>
    /\ Includes(call.result, <<".", ".">>)

\* the absolute URL the string is, as new URL reads it
AsURL(s) == ParseURL(Trim(s))

OtherOriginRejected ==
    /\ Validated
    /\ call.returnTo = <<"E", "/", "e", "?", "e", "#", "c">>
    /\ call.result = Slash

(***************************************************************************)
(* The login journey                                                       *)
(***************************************************************************)
\* the returnTo that the login stored in the transaction the callback found
StoredReturnTo == response.before.oidcTransaction.returnTo

\* C22 as stated: on every successful callback the redirect target equals the
\* returnTo stored in the transaction; the callback's second validation of
\* the stored value never changes it.
C22_RedirectIsStoredReturnTo ==
    SuccessfulCallback => response.location = StoredReturnTo

\* the value is a path that the validator's relative branch returns as it is
PlainPath(s) ==
    /\ StartsWith(s, <<"/">>)
    /\ ~Includes(s, <<"/", "/">>)
    /\ ~Includes(s, <<".", ".">>)
    /\ ~Includes(s, <<"\\">>)

\* C22, amended: on every successful callback the redirect target is the
\* stored returnTo validated once more: the stored value itself when it is a
\* path starting with a single '/' with no '//', '..' or backslash in it;
\* otherwise the stored value with its repeated slashes collapsed, or '/'.
C22_RedirectIsRevalidatedReturnTo ==
    SuccessfulCallback =>
        /\ PlainPath(StoredReturnTo) => response.location = StoredReturnTo
        /\ ~PlainPath(StoredReturnTo) =>
              response.location \in {CollapseSlashes(StoredReturnTo), Slash}
        /\ PlainPath(response.location)

\* a stored returnTo that is a URL's path with a query is the redirect target
C22_Witness ==
    /\ SuccessfulCallback
    /\ StoredReturnTo = <<"/", "e", "?", "e">>
    /\ response.location = StoredReturnTo

\* a stored '//e' (from a URL of the base origin) is redirected to '/'
StoredProtocolRelativeRevalidated ==
    /\ SuccessfulCallback
    /\ StoredReturnTo = <<"/", "/", "e">>
    /\ response.location = Slash

\* a callback that carried the stored state and obtained an ID token with
\* the stored nonce and a groups list that has the configured group
CallbackOfMember ==
    /\ IsCallback
    /\ HadTransaction
    /\ response.query.state = response.before.oidcTransaction.state
    /\ response.exchanged
    /\ response.tokenSet # Null
    /\ response.tokenSet.claims.nonce = response.before.oidcTransaction.nonce
    /\ HasList(response.tokenSet.claims)
    /\ Member(response.tokenSet.claims)

\* C23: from a fresh session, GET /auth/login?returnTo=/chat.html and then a
\* callback with the stored state, whose ID token has the stored nonce and a
\* groups list with the configured group, end in a redirect to /chat.html and
\* a session whose user has authorized = true; a later GET /chat.html and a
\* later proxy request on that session are admitted.
C23_LoginJourney ==
    /\ (CallbackOfMember /\ response.before.user = Null /\ StoredReturnTo = ChatHtml) =>
          /\ response.status = 302
          /\ response.location = ChatHtml
          /\ store[response.sidAfter] # Null
          /\ store[response.sidAfter].user # Null
          /\ store[response.sidAfter].user.authorized = TRUE
    /\ (IsChat /\ response.before.user # Null /\ response.before.user.authorized = TRUE) =>
          /\ response.status = 200
          /\ response.body = [file |-> "chat.html"]
    /\ (IsProxy /\ HoldsAuthorizedUser /\ response.passed) =>
          /\ response.status # 401
          /\ Len(response.sent) = 1

\* the journey's last step: the proxy request of the session the callback
\* left has been relayed
C23_Witness ==
    /\ IsProxy
    /\ HoldsAuthorizedUser
    /\ response.passed
    /\ Len(response.sent) = 1
    /\ response.status = 200
    /\ response.cookie # 1

\* its middle steps
JourneyCallbackDone ==
    /\ CallbackOfMember
    /\ StoredReturnTo = ChatHtml
    /\ response.status = 302
    /\ response.location = ChatHtml

JourneyChatAdmitted ==
    /\ IsChat
    /\ response.before.user # Null
    /\ response.before.user.authorized = TRUE
    /\ response.by = "route"
    /\ response.status = 200

\* C24: on the callback's success path the redirect is produced only after
\* the regeneration has completed and the user record is on the regenerated
\* session, so every later request that carries the new session identifier
\* observes the user record: when the redirect is there, no regeneration is
\* pending, the new identifier is in the browser's hands and names a stored
\* session with the callback's user; and a request reads the session that the
\* store holds under its identifier.
C24_RedirectAfterRegeneration ==
    /\ SuccessfulCallback =>
          /\ \A r \in Reqs : req[r].pc # "regenerate"
          /\ response.sidAfter \in issued
          /\ store[response.sidAfter] # Null
          /\ store[response.sidAfter].user # Null
          /\ store[response.sidAfter].user.sub = response.tokenSet.claims.sub
          /\ store[response.sidAfter].user.idToken = response.tokenSet.id_token
    /\ (IsChat /\ response.cookie # 0 /\ store[response.cookie] # Null) =>
          response.before = store[response.cookie]
    /\ (IsProxy /\ response.passed /\ response.cookie # 0
            /\ store[response.cookie] # Null) =>
          response.before = store[response.cookie]

\* a later request with the new identifier has observed the user record
C24_Witness ==
    /\ IsChat
    /\ response.cookie # 0
    /\ response.cookie # 1
    /\ response.before.user # Null
    /\ response.before.user.sub = "u1"
    /\ response.before = store[response.cookie]

(***************************************************************************)
(* The status report                                                       *)
(***************************************************************************)
\* the /status handler has sent its report
Reported == response.kind = "status" /\ response.passed

\* C26: GET /auth/status reports authenticated: true exactly when the session
\* carries a user, also a user whose authorized is false; the report's user
\* then has email, name and authorized only, with the session's values, and
\* neither the subject id nor the ID token.
C26_StatusReport ==
    Reported =>
        /\ response.status = 200
        /\ response.body.authenticated <=> (response.before.user # Null)
        /\ response.before.user = Null => DOMAIN response.body = {"authenticated"}
        /\ response.before.user # Null =>
              /\ DOMAIN response.body = {"authenticated", "user"}
              /\ DOMAIN response.body.user = {"email", "name", "authorized"}
              /\ response.body.user.email = response.before.user.email
              /\ response.body.user.name = response.before.user.name
              /\ response.body.user.authorized = response.before.user.authorized

\* the report on the session of a user who is not in the group
C26_Witness ==
    /\ Reported
    /\ response.before.user # Null
    /\ response.before.user.authorized = FALSE
    /\ response.before.user.idToken = "idt2"
    /\ response.body.authenticated
    /\ response.body.user.authorized = FALSE

\* the report on a session without a user
ReportedAnonymous ==
    /\ Reported
    /\ response.cookie # 0
    /\ response.before.user = Null
    /\ ~response.body.authenticated

(***************************************************************************)
(* Logout                                                                  *)
(***************************************************************************)
IsLogout == response.kind = "logout"

\* the redirect of a logout: to the provider's end-session URL with
\* post_logout_redirect_uri and the user's ID token, if there was a user, as
\* id_token_hint; to '/' when the URL could not be built (no client)
LogoutRedirect ==
    /\ response.status = 302
    /\ IF oidcClient # 0
       THEN response.location =
               [endpoint |-> "logout",
                post_logout_redirect_uri |-> <<config.baseUrl, "/">>,
                id_token_hint |-> IF response.before.user # Null
                                  THEN response.before.user.idToken
                                  ELSE Undefined]
       ELSE response.location = Slash

\* the identifier the request used no longer names a session with a user
NoUserUnder(sid) == store[sid] = Null \/ store[sid].user = Null

\* C25: GET /auth/logout on any session ends in one redirect, to the
\* provider's end-session URL with post_logout_redirect_uri and, when the
\* session had a user, that user's ID token as id_token_hint, or to '/' when
\* the logout URL cannot be built; and after it the session identifier the
\* request used no longer resolves to a session carrying a user.
C25_LogoutRedirectsAndEndsSession ==
    IsLogout => (LogoutRedirect /\ NoUserUnder(response.sidBefore))

\* What does hold of the logout: the redirect is as C25 says.
LogoutRedirects ==
    IsLogout => LogoutRedirect

\* a logout of a user's session after which the identifier still names the
\* session with its user
LogoutLeavesSession ==
    /\ IsLogout
    /\ response.before.user # Null
    /\ response.status = 302
    /\ store[response.sidBefore] # Null
    /\ store[response.sidBefore].user = response.before.user

\* a logout of a user's session that removed it
LogoutRemovesSession ==
    /\ IsLogout
    /\ response.before.user # Null
    /\ oidcClient # 0
    /\ response.location.id_token_hint = response.before.user.idToken
    /\ store[response.sidBefore] = Null

(***************************************************************************)
(* The pending transaction                                                 *)
(***************************************************************************)
\* the transaction's state, nonce and verifier are those of one beginLogin
\* (a beginLogin draws the three together)
FromOneLogin(txn) == txn.state = txn.nonce /\ txn.nonce = txn.codeVerifier

IsLogin == response.kind = "login"

ReplacedStateRejected ==
    /\ ReachedChecks
    /\ HadTransaction
    /\ response.before.oidcTransaction.state = 2
    /\ response.query.state = 1
    /\ response.error = "StateMismatch"

(***************************************************************************)
(* Failures of the session store                                           *)
(***************************************************************************)
\* the callback regenerated the session and the store failed to destroy the
\* old one: it is still stored under the identifier the request came with
RegenerationDestroyFailed ==
    /\ IsCallback
    /\ response.sidAfter # response.sidBefore
    /\ store[response.sidBefore] # Null

\* the logout's destroy of a stored session failed: it is still stored
LogoutDestroyFailed ==
    /\ IsLogout
    /\ response.before # Null
    /\ store[response.sidBefore] # Null

VisibleError == response.status >= 400

\* C28: when the store's destroy fails inside the callback's regeneration or
\* inside the logout, the request ends in an error response: a failed
\* regeneration does not establish a user and does not send the success
\* redirect, and a failed logout does not redirect as if it had succeeded.
C28_StoreFailureIsVisible ==
    /\ RegenerationDestroyFailed =>
          /\ VisibleError
          /\ response.after.user = Null
          /\ store[response.sidAfter] = Null \/ store[response.sidAfter].user = Null
    /\ LogoutDestroyFailed => VisibleError

\* the callback whose regeneration failed was answered with the success
\* redirect and a user under the new identifier
FailedRegenerationRedirects ==
    /\ RegenerationDestroyFailed
    /\ response.status = 302
    /\ store[response.sidAfter] # Null
    /\ store[response.sidAfter].user # Null

\* the logout whose destroy failed was answered with the redirect
FailedLogoutRedirects ==
    /\ LogoutDestroyFailed
    /\ response.status = 302

(***************************************************************************)
(* A failed discovery                                                      *)
(***************************************************************************)
\* the step in which the discovery of a login's request is rejected
LoginDiscoveryFails ==
    /\ req[1].pc = "discover"
    /\ req[1].kind = "login"
    /\ response'.kind = "login"
    /\ response'.error = "ProviderUnreachable"

\* a step in which a login arrives
LoginArrives ==
    /\ req[1].pc = "idle"
    /\ \/ req'[1].pc # "idle" /\ req'[1].kind = "login"
       \/ response'.kind = "login"

\* C29: when the provider's discovery fails during GET /auth/login only that
\* request fails: it is answered with an error, the session and the store are
\* as they were (no oidcTransaction is written), the cached client stays
\* uninitialized, and a login that arrives while no client is cached runs the
\* discovery again.
C29_FailedDiscoveryIsContained ==
    [][ /\ LoginDiscoveryFails =>
              /\ response'.status = 500
              /\ response'.after = response'.before
              /\ response'.sidAfter = response'.sidBefore
              /\ store' = store
              /\ nextRand' = nextRand
              /\ oidcClient = 0
              /\ oidcClient' = 0
              /\ req'[1].pc = "idle"
        /\ (LoginArrives /\ oidcClient = 0) =>
              /\ req'[1].pc = "discover"
              /\ discoverCalls' = discoverCalls + 1 ]_vars

\* a login's discovery has failed: no transaction, no client
C29_Witness ==
    /\ IsLogin
    /\ response.error = "ProviderUnreachable"
    /\ response.status = 500
    /\ response.after.oidcTransaction = Null
    /\ oidcClient = 0
    /\ discoverCalls = 1

\* the login after the failed discovery has discovered again and succeeded
LoginAfterFailedDiscovery ==
    /\ IsLogin
    /\ response.status = 302
    /\ discoverCalls = MaxDiscover
    /\ clientsCreated = 1
    /\ response.after.oidcTransaction.state = 1

(***************************************************************************)
(* The reconnect strategy                                                  *)
(***************************************************************************)
Reconnected == call.fn = "reconnectStrategy"

\* C30: for the retry count n the strategy returns min(100 * n, 3000)
\* milliseconds for every n <= 10 and gives up with an error for n > 10; over
\* the allowed retries the delay never decreases and never exceeds 3000.
C30_ReconnectStrategy ==
    Reconnected =>
        LET n == call.retries
        IN  /\ n <= 10 =>
                  /\ call.result = [delay |-> IF 100 * n <= 3000 THEN 100 * n ELSE 3000]
                  /\ call.result.delay <= 3000
                  /\ \A m \in 0..n : reconnectStrategy(m).delay <= call.result.delay
            /\ n > 10 => "error" \in DOMAIN call.result /\ "delay" \notin DOMAIN call.result

\* the last allowed retry has got its delay
C30_Witness ==
    /\ Reconnected
    /\ call.retries = 10
    /\ call.result = [delay |-> 1000]

\* the first retry past the allowed ones has got the error
ReconnectGivenUp ==
    /\ Reconnected
    /\ call.retries = 11
    /\ "error" \in DOMAIN call.result

(***************************************************************************)
(* The process without the provider                                        *)
(***************************************************************************)
\* the tenant id or the client id is unset
ProviderUnset == config.tenantId = "" \/ config.clientId = ""

NoRoute == response.kind = "noroute"

OpenChatServed ==
    /\ ProviderUnset
    /\ IsChat
    /\ response.status = 200

\* without the provider a proxy request has been refused
OpenProxyRefused ==
    /\ ProviderUnset
    /\ IsProxy
    /\ response.passed
    /\ response.status = 401

(***************************************************************************)
(* The token exchange                                                      *)
(***************************************************************************)
\* the time at which the callback looked at the transaction (its arrival,
\* when it did not get that far)
LookedAt == IF response.checkedAt # -1 THEN response.checkedAt ELSE response.arrivedAt

\* the transaction of the callback's session is pending and its state is the
\* callback's
TransactionMatches ==
    /\ HadTransaction
    /\ LookedAt - response.before.oidcTransaction.createdAt <= TRANSACTION_TTL
    /\ response.query.state = response.before.oidcTransaction.state

\* the requests waiting for the token endpoint hold the transaction of their
\* session, whose verifier and nonce the exchange uses
ExchangeUsesTransaction ==
    \A r \in Reqs :
        req[r].pc = "exchange" =>
            /\ req[r].txn = req[r].orig.oidcTransaction
            /\ req[r].txn.state = req[r].query.state
            /\ FromOneLogin(req[r].txn)

NoExchangeIs400 == (IsCallback /\ ~response.exchanged) => response.status = 400

CallbackWithoutCode ==
    /\ IsCallback
    /\ ~response.exchanged
    /\ response.query.error = Undefined
    /\ response.query.code = Undefined
    /\ TransactionMatches
    /\ response.status = 400

\* a callback with an empty error parameter has reached the exchange
CallbackWithEmptyError ==
    /\ IsCallback
    /\ response.exchanged
    /\ response.query.error = ""

(***************************************************************************)
(* Replays                                                                 *)
(***************************************************************************)
\* the sessions, other than the one the response left, that carry a user
OtherUsers ==
    {sid \in Sids \ {response.sidAfter} : store[sid] # Null /\ store[sid].user # Null}

ReplaySucceeded ==
    /\ SuccessfulCallback
    /\ response.query.state = 1
    /\ OtherUsers # {}
    /\ store[response.sidBefore] # Null
    /\ store[response.sidBefore].oidcTransaction # Null

\* the replay under the new identifier has failed: no transaction
ReplayUnderNewIdFails ==
    /\ IsCallback
    /\ response.before.user # Null
    /\ response.query.state = 1
    /\ response.query.code = "code"
    /\ response.status = 400
    /\ response.error = "NoTransaction"
    /\ response.after.user = response.before.user

(***************************************************************************)
(* Two logins on one session                                               *)
(***************************************************************************)
\* both logins were begun on the one session there is, and no callback has
\* succeeded
BothOnOneSession ==
    /\ nextRand = MaxLogins + 1
    /\ issued = {response.sidBefore}

LatestLoginFailsAfterMismatch ==
    /\ ReachedChecks
    /\ BothOnOneSession
    /\ response.before.oidcTransaction = Null
    /\ response.query.state = MaxLogins
    /\ response.error = "NoTransaction"
    /\ \A sid \in Sids : store[sid] = Null \/ store[sid].user = Null

(***************************************************************************)
(* The old identifier                                                      *)
(***************************************************************************)
\* what the store holds under this identifier carries no user but the one
\* this session had when the request loaded it
NoNewUserUnder(sid, session) ==
    store[sid] = Null \/ store[sid].user = session.user

\* C35: the user record that the callback writes on the session object before
\* the regeneration is never stored under the old identifier, whatever other
\* requests use that identifier meanwhile: while the callback waits for the
\* regeneration, and after it has succeeded, the store holds under the old
\* identifier either nothing or a session with the user (if any) it had
\* before the callback; the new user is stored under the new identifier.
C35_OldIdentifierGetsNoUser ==
    /\ \A r \in Reqs :
          req[r].pc = "regenerate" =>
              /\ req[r].sess.user # Null
              /\ NoNewUserUnder(req[r].sid, req[r].orig)
    /\ SuccessfulCallback =>
          /\ response.sidAfter # response.sidBefore
          /\ NoNewUserUnder(response.sidBefore, response.before)
          /\ response.after.user # Null
          /\ store[response.sidAfter].user = response.after.user

\* the callback has succeeded while the old session stayed in the store and
\* another request that came with the old identifier is in flight
C35_Witness ==
    /\ SuccessfulCallback
    /\ store[response.sidBefore] # Null
    /\ store[response.sidBefore].user = Null
    /\ store[response.sidAfter].user # Null
    /\ \E r \in Reqs : req[r].pc # "idle" /\ req[r].origSid = response.sidBefore

(***************************************************************************)
(* The life of the user record                                             *)
(***************************************************************************)
\* the step ends the logout's destroy of this session
LogoutDestroys(sid) ==
    \E r \in Reqs : req[r].pc = "destroy" /\ req[r].sid = sid /\ req'[r].pc # "destroy"

\* the step ends a successful callback that came with this session
CallbackReplaces(sid) ==
    /\ \E r \in Reqs : req[r].pc = "regenerate" /\ req[r].origSid = sid
    /\ response'.kind = "callback"
    /\ response'.status = 302

\* the step is the store's expiry of this session: no request moves
Expires(sid) ==
    /\ req' = req
    /\ response' = NoResponse
    /\ store' = [store EXCEPT ![sid] = Null]

\* C36: once a callback has written a session's user record nothing but a
\* logout, the session's expiry or a later successful callback changes it:
\* in every step a stored session with a user keeps that user, authorized
\* included, unless the step is one of those three and removes the session;
\* the guards, the status, the root, the proxy and the failed callbacks leave
\* it as it is.
C36_UserRecordIsStable ==
    [][\A sid \in Sids :
          (store[sid] # Null /\ store[sid].user # Null) =>
              \/ store'[sid] # Null /\ store'[sid].user = store[sid].user
              \/ /\ store'[sid] = Null
                 /\ LogoutDestroys(sid) \/ CallbackReplaces(sid) \/ Expires(sid)]_vars

\* a callback has failed on a user's session that held a transaction, and
\* the user is as it was
C36_Witness ==
    /\ IsCallback
    /\ response.status = 400
    /\ response.error = "StateMismatch"
    /\ response.before.user # Null
    /\ response.before.user.authorized = FALSE
    /\ store[response.sidBefore].user = response.before.user
    /\ store[response.sidBefore].oidcTransaction = Null

\* the root has answered a user who is not authorized with the landing page
RootLeavesUser ==
    /\ response.kind = "root"
    /\ response.passed
    /\ response.before.user # Null
    /\ response.status = 200
    /\ store[response.cookie].user = response.before.user

(***************************************************************************)
(* The shape of a validated returnTo                                       *)
(***************************************************************************)
\* C37: for every input the value validateReturnTo returns begins with
\* exactly one '/': it never begins with '//' (a protocol-relative URL) and
\* never contains a backslash.
C37_ResultIsLocalPath ==
    Validated =>
        /\ StartsWith(call.result, <<"/">>)
        /\ ~StartsWith(call.result, <<"/", "/">>)
        /\ ~Includes(call.result, <<"\\">>)

\* What does hold: the result begins with '/' and, for an input that is not
\* an absolute URL of the base origin, with one '/' only.
ResultBeginsWithSlash ==
    Validated =>
        /\ StartsWith(call.result, <<"/">>)
        /\ ~StartsWith(Trim(call.returnTo), <<config.baseUrl>>) =>
              ~StartsWith(call.result, <<"/", "/">>)

\* an absolute URL of the base origin whose path begins with '//' has been
\* returned as a protocol-relative URL
ProtocolRelativeReturned ==
    /\ Validated
    /\ call.returnTo = <<"B", "/", "/", "e">>
    /\ call.result = <<"/", "/", "e">>

(***************************************************************************)
(* The legacy login disabled                                               *)
(***************************************************************************)
\* the session the request got from the middleware carries an authorized user
SessionAuthorized(session) ==
    session # Null /\ session.user # Null /\ session.user.authorized = TRUE

\* the proxy request got past authenticateProxy
Granted == response.passed /\ ~NotAuthenticated401

\* C38: with the legacy password login disabled the cookie named session is
\* never consulted: a proxy request gets past authenticateProxy exactly when
\* its session carries a user with authorized true, whatever JWT it holds,
\* and the routes POST /login and POST /logout do not exist: a request for
\* them falls through to the 404.
C38_LegacyDisabled ==
    ~config.enablePasswordLogin =>
        /\ IsProxy => (Granted <=> SessionAuthorized(response.before))
        /\ \A r \in Reqs :
              req[r].pc = "fetch" => SessionAuthorized(req[r].seen.before)
        /\ \A p \in LegacyPaths, m \in Methods : [method |-> m, path |-> p] \notin Routes
        /\ response.kind \notin {"legacyLogin", "legacyLogout"}
        /\ (NoRoute /\ response.passed /\ response.path \in LegacyPaths) =>
              response.status = 404

\* a proxy request with a JWT that verifies and no user has been refused
C38_Witness ==
    /\ ~config.enablePasswordLogin
    /\ IsProxy
    /\ response.passed
    /\ response.jwt = "valid"
    /\ response.before.user = Null
    /\ NotAuthenticated401

\* the legacy login's path has been answered with the 404
LegacyLoginMissing ==
    /\ ~config.enablePasswordLogin
    /\ NoRoute
    /\ response.method = "POST"
    /\ response.path = "/login"
    /\ response.status = 404

\* with the legacy login enabled, the same JWT has got through
LegacyJwtAccepted ==
    /\ config.enablePasswordLogin
    /\ IsProxy
    /\ response.jwt = "valid"
    /\ response.before.user = Null
    /\ Granted

====
